---- MODULE Spec2Model ----
(***************************************************************************)
(* Model of the vibe-pulse dashboard server: Express route handlers over a *)
(* relational store (users, websites, metrics, insights, reports,          *)
(* implementation plans), the GA4 service that builds runReport requests   *)
(* and normalises their responses, and the asynchronous report generation. *)
(*                                                                         *)
(* Conventions.                                                            *)
(*  - A JavaScript value that may be undefined is a sequence of length at  *)
(*    most one: <<>> is undefined, <<v>> is the value v.                   *)
(*  - A query-string value is a sequence of one-character strings.         *)
(*  - GA4 ratios are kept as integers: engagementRate in hundredths,       *)
(*    dauPerMau in thousandths.  Percentages are rounded on the exact      *)
(*    rational value (IEEE rounding noise is not modelled).                *)
(*  - A storage call either takes effect and returns, or throws without    *)
(*    having taken effect.                                                 *)
(***************************************************************************)
EXTENDS Integers, Sequences, FiniteSets, TLC

(***************************************************************************)
(* Bounds of the model                                                     *)
(***************************************************************************)
\* rows of a GA4 response
MaxRows == 2

\* rows inserted since the database was created, the seed's four included
MaxInserts == 6

\* handlers suspended at an await at the same time
MaxInflight == 2

\* largest metric value handed to calculateChange
MaxValue == 10

\* days of a dailyTrends list
MaxTrendDays == 3

(***************************************************************************)
(* JavaScript helpers                                                      *)
(***************************************************************************)
Undefined == <<>>

Some(v) == <<v>>

\* Number(x || '0') for an optional numeric value
NumberOr0(x) == IF x = Undefined THEN 0 ELSE x[1]

\* x || d for an optional number: undefined and 0 are falsy
OrNum(x, d) == IF x = Undefined THEN d ELSE IF x[1] = 0 THEN d ELSE x[1]

\* a variant without the fallback: String(x ?? '')
StrOrEmpty(x, d) == IF x = Undefined THEN "" ELSE x[1]

\* x || d for an optional string: undefined and '' are falsy
OrStr(x, d) == IF x = Undefined THEN d ELSE IF x[1] = "" THEN d ELSE x[1]

\* x || {} for an optional object (an object is always truthy)
OrObj(x, d) == IF x = Undefined THEN d ELSE x[1]

Min(a, b) == IF a < b THEN a ELSE b

Max(a, b) == IF a > b THEN a ELSE b

Abs(a) == IF a < 0 THEN 0 - a ELSE a

\* (num/den).toFixed(1) for num >= 0, den > 0: nearest tenth, ties upward
ToFixed1(num, den) ==
  LET t == (2 * num * 10 + den) \div (2 * den)
  IN  ToString(t \div 10) \o "." \o ToString(t % 10)

(***************************************************************************)
(* GA4 service: metric lists and requests                                  *)
(***************************************************************************)
GA4MetricLimit == 10

primaryMetrics ==
  << "totalUsers", "conversions", "engagementRate", "userEngagementDuration",
     "sessionsPerUser", "engagedSessions", "screenPageViewsPerSession",
     "eventCount", "sessions", "activeUsers", "averageSessionDuration" >>

secondaryMetrics == << "eventCountPerUser", "newUsers", "sessionDuration" >>

coreMetrics == << "totalUsers", "bounceRate", "averageSessionDuration" >>

enhancedMetrics ==
  << "sessionsPerUser", "engagedSessions", "screenPageViewsPerSession",
     "eventCount", "userEngagementDuration", "newUsers" >>

DaysAgo(n) == ToString(n) \o "daysAgo"

RunReport(propertyId, startDate, endDate, metrics, dimensions) ==
  [ property   |-> "properties/" \o propertyId,
    startDate  |-> startDate,
    endDate    |-> endDate,
    metrics    |-> metrics,
    dimensions |-> dimensions ]

\* The nine runReport requests fetchKeyMetrics builds, in program order
KeyMetricsRequests(propertyId, days) ==
  LET currentStartDate  == DaysAgo(days)
      previousStartDate == DaysAgo(days * 2)
      previousEndDate   == DaysAgo(days + 1)
      pd == << "platform", "deviceCategory" >>
  IN << RunReport(propertyId, currentStartDate, "today", primaryMetrics, pd),
        RunReport(propertyId, previousStartDate, previousEndDate, primaryMetrics, pd),
        RunReport(propertyId, currentStartDate, "today", secondaryMetrics, pd),
        RunReport(propertyId, previousStartDate, previousEndDate, secondaryMetrics, pd),
        RunReport(propertyId, currentStartDate, "today", << "sessions" >>,
                  << "sessionDefaultChannelGroup" >>),
        RunReport(propertyId, currentStartDate, "today", << "sessions" >>,
                  << "sessionSource" >>),
        RunReport(propertyId, currentStartDate, "today", << "screenPageViews" >>,
                  << "pageTitle" >>),
        RunReport(propertyId, currentStartDate, "today", << "totalUsers" >>,
                  << "country" >>),
        RunReport(propertyId, currentStartDate, "today",
                  << "screenPageViews", "eventCount", "dauPerMau" >>, << >>) >>

\* The four runReport requests fetchHistoricalData builds, in program order
HistoricalRequests(propertyId, days) ==
  << RunReport(propertyId, DaysAgo(days), "today", coreMetrics, << "date" >>),
     RunReport(propertyId, DaysAgo(days), "today", enhancedMetrics, << "date" >>),
     RunReport(propertyId, DaysAgo(days), "today",
               << "totalUsers", "bounceRate", "averageSessionDuration" >>,
               << "landingPage" >>),
     RunReport(propertyId, DaysAgo(days), "today",
               << "totalUsers", "bounceRate" >>, << "sessionSource" >>) >>

(***************************************************************************)
(* GA4 backend: what the API answers to a request.  A backend is described *)
(* by a record g; the values of a response row are listed in the order of  *)
(* the request's metric list.                                              *)
(***************************************************************************)
MetricNames ==
  { "totalUsers", "conversions", "engagementRate", "userEngagementDuration",
    "sessionsPerUser", "engagedSessions", "screenPageViewsPerSession",
    "eventCount", "sessions", "activeUsers", "averageSessionDuration",
    "eventCountPerUser", "newUsers", "sessionDuration", "screenPageViews",
    "dauPerMau", "bounceRate" }

\* Values GA4 holds for the current period
CurWorld(g) ==
  [ n \in MetricNames |->
      CASE n = "totalUsers"             -> g.curUsers
        [] n = "conversions"            -> 2
        [] n = "engagementRate"         -> g.curEng
        [] n = "userEngagementDuration" -> 125
        [] n = "sessionsPerUser"        -> 4
        [] n = "engagedSessions"        -> 5
        [] n = "screenPageViewsPerSession" -> 6
        [] n = "eventCount"             -> 50
        [] n = "sessions"               -> 8
        [] n = "activeUsers"            -> 9
        [] n = "averageSessionDuration" -> 10
        [] n = "eventCountPerUser"      -> 11
        [] n = "newUsers"               -> 12
        [] n = "sessionDuration"        -> 13
        [] n = "screenPageViews"        -> g.views
        [] n = "dauPerMau"              -> g.dau
        [] OTHER                        -> 40 ]

\* Values GA4 holds for the previous period
PrevWorld(g) ==
  [ n \in MetricNames |->
      CASE n = "totalUsers"     -> g.prevUsers
        [] n = "engagementRate" -> g.prevEng
        [] OTHER                -> CurWorld(g)[n] ]

DimensionValue(d, j) ==
  CASE d = "platform"                   -> "web"
    [] d = "deviceCategory"             -> IF j = 1 THEN "desktop" ELSE "mobile"
    [] d = "sessionDefaultChannelGroup" -> "Organic Search"
    [] d = "sessionSource"              -> "Google"
    [] d = "pageTitle"                  -> "Home"
    [] d = "country"                    -> IF j = 1 THEN "United States" ELSE "France"
    [] OTHER                            -> "20240101"

\* The rows GA4 returns for request req when it holds n rows of values world
Respond(req, n, world) ==
  [ j \in 1..n |->
      [ dimensionValues |-> [ i \in 1..Len(req.dimensions) |->
                                DimensionValue(req.dimensions[i], j) ],
        metricValues    |-> [ i \in 1..Len(req.metrics) |-> world[req.metrics[i]] ] ] ]

\* rows?.[r]?.metricValues?.[i]?.value, r and i counted from 0 as in the source
MetricValue(rows, r, i) ==
  IF r + 1 <= Len(rows)
  THEN IF i + 1 <= Len(rows[r + 1].metricValues)
       THEN Some(rows[r + 1].metricValues[i + 1])
       ELSE Undefined
  ELSE Undefined

\* row.dimensionValues?.[i]?.value || 'unknown'
DimValue(row, i) ==
  IF i + 1 <= Len(row.dimensionValues) THEN row.dimensionValues[i + 1] ELSE "unknown"

toLowerCase(s) ==
  CASE s = "Organic Search" -> "organic search"
    [] s = "Google"         -> "google"
    [] OTHER                -> s

\* country.substring(0, 2).toUpperCase(), with the two special cases
CountryCode(country) ==
  CASE country = "United States"  -> "US"
    [] country = "United Kingdom" -> "GB"
    [] country = "France"         -> "FR"
    [] OTHER                      -> "UN"

\* obj[key] += v, or obj[key] = v when the key is absent or its value is 0
AddTo(obj, key, v) ==
  IF key \in DOMAIN obj
  THEN IF obj[key] # 0 THEN [ obj EXCEPT ![key] = obj[key] + v ]
                       ELSE [ obj EXCEPT ![key] = v ]
  ELSE [ k \in DOMAIN obj \cup {key} |-> IF k = key THEN v ELSE obj[k] ]

\* obj[key] = v
SetKey(obj, key, v) ==
  [ k \in DOMAIN obj \cup {key} |-> IF k = key THEN v ELSE obj[k] ]

EmptyObj == [ k \in {} |-> 0 ]

RECURSIVE Breakdown(_, _, _)
\* rows.forEach: sum metric 0 of the rows by dimension number d
Breakdown(rows, d, n) ==
  IF n = 0 THEN EmptyObj
  ELSE AddTo(Breakdown(rows, d, n - 1), DimValue(rows[n], d),
             NumberOr0(MetricValue(rows, n - 1, 0)))

RECURSIVE SumMetric(_, _, _)
\* rows.forEach: acc += Number(row.metricValues?.[i]?.value || '0')
SumMetric(rows, i, n) ==
  IF n = 0 THEN 0
  ELSE SumMetric(rows, i, n - 1) + NumberOr0(MetricValue(rows, n - 1, i))

RECURSIVE KeyedRows(_, _, _)
\* rows.forEach: obj[key(row)] = Math.round(metric 0); kind selects the key
KeyedRows(rows, kind, n) ==
  IF n = 0 THEN EmptyObj
  ELSE LET raw == DimValue(rows[n], 0)
           key == CASE kind = "lower"   -> toLowerCase(raw)
                    [] kind = "country" -> CountryCode(raw)
                    [] OTHER            -> raw
       IN SetKey(KeyedRows(rows, kind, n - 1), key,
                 NumberOr0(MetricValue(rows, n - 1, 0)))

(***************************************************************************)
(* GA4 service: normalisation                                              *)
(***************************************************************************)
\* a variant that also prefixes a delta of zero with '+'
calculateChangePlusZero(current, previous) ==
  IF previous = 0 THEN "0%"
  ELSE LET num == IF previous > 0 THEN (current - previous) * 100
                  ELSE (previous - current) * 100
           den == Abs(previous)
       IN (IF num >= 0 THEN "+" ELSE "-") \o ToFixed1(Abs(num), den) \o "%"

\* calculateChange(current, previous): percentage delta as a string
calculateChange(current, previous) ==
  IF previous = 0 THEN "0%"
  ELSE LET num == IF previous > 0 THEN (current - previous) * 100
                  ELSE (previous - current) * 100
           den == Abs(previous)
       IN (IF num > 0 THEN "+" ELSE IF num < 0 THEN "-" ELSE "")
          \o ToFixed1(Abs(num), den) \o "%"

\* `${minutes}m ${seconds}s` of a duration in whole seconds
EngagementTime(duration) ==
  ToString(duration \div 60) \o "m " \o ToString(duration % 60) \o "s"

\* days: number = 30
KeyMetricsDefaultDays == 30

\* a variant without the try/catch around the secondary batch
KeyMetricsThrowsOnAny(g) == ~g.curOk \/ ~g.prevOk \/ ~g.curSecOk

\* fetchKeyMetrics throws (outer catch) when a runReport call outside the
\* inner try blocks throws: the current or the previous primary request
KeyMetricsThrows(g) == ~g.curOk \/ ~g.prevOk

\* fetchKeyMetrics(propertyId, authClient, days) against backend g.
\* Result: threw, the requests sent (in order) and, unless it threw, the
\* GA4MetricsData record; optional fields of the record are optional values.
fetchKeyMetrics(propertyId, days, g) ==
  LET reqs == KeyMetricsRequests(propertyId, days)
      curRows  == Respond(reqs[1], g.curN, CurWorld(g))
      prevRows == Respond(reqs[2], g.prevN, PrevWorld(g))
      \* currentSecondaryData stays null when its request throws
      secRows  == IF g.curSecOk THEN Respond(reqs[3], g.curN, CurWorld(g)) ELSE << >>
      auxRows(k) == Respond(reqs[4 + k], g.curN, CurWorld(g))
      mRows    == IF g.mOk THEN Respond(reqs[9], Min(g.curN, 1), CurWorld(g)) ELSE << >>
      sent ==
        IF ~g.curOk THEN SubSeq(reqs, 1, 1)
        ELSE IF ~g.prevOk THEN SubSeq(reqs, 1, 2)
        ELSE SubSeq(reqs, 1, 3)
             \o (IF g.curSecOk THEN SubSeq(reqs, 4, 4) ELSE << >>)
             \o SubSeq(reqs, 5, 4 + Min(4, g.auxOk + 1))
             \o SubSeq(reqs, 9, 9)
      \* metricValues?.slice(0, 4) of the first row, or []
      currentData  == IF Len(curRows) > 0
                      THEN SubSeq(curRows[1].metricValues, 1, 4) ELSE << >>
      previousData == IF Len(prevRows) > 0
                      THEN SubSeq(prevRows[1].metricValues, 1, 4) ELSE << >>
      At(data, i)  == IF i + 1 <= Len(data) THEN Some(data[i + 1]) ELSE Undefined
      currentVisitors        == NumberOr0(At(currentData, 0))
      previousVisitors       == NumberOr0(At(previousData, 0))
      currentConversions     == NumberOr0(At(currentData, 1))
      previousConversions    == NumberOr0(At(previousData, 1))
      currentEngagementRate  == NumberOr0(At(currentData, 2))
      previousEngagementRate == NumberOr0(At(previousData, 2))
      currentBounceRate      == Max(0, Min(100, 100 - currentEngagementRate))
      previousBounceRate     == Max(0, Min(100, 100 - previousEngagementRate))
      activeUsers == IF MetricValue(curRows, 0, 8) # Undefined
                     THEN NumberOr0(MetricValue(curRows, 0, 8)) ELSE 0
      newUsers    == SumMetric(secRows, 1, Len(secRows))
      eventCount  == SumMetric(secRows, 0, Len(secRows))
      sessionsByChannel == IF g.auxOk >= 1
                           THEN KeyedRows(auxRows(1), "lower", g.curN) ELSE EmptyObj
      sessionsBySource  == IF g.auxOk >= 2
                           THEN KeyedRows(auxRows(2), "lower", g.curN) ELSE EmptyObj
      viewsByPage       == IF g.auxOk >= 3
                           THEN KeyedRows(auxRows(3), "raw", g.curN) ELSE EmptyObj
      usersByCountry    == IF g.auxOk >= 4
                           THEN KeyedRows(auxRows(4), "country", g.curN) ELSE EmptyObj
      actualViewsCount == NumberOr0(MetricValue(mRows, 0, 0))
      actualEventCount == NumberOr0(MetricValue(mRows, 0, 1))
      dauPerMau        == NumberOr0(MetricValue(mRows, 0, 2))
      userEngagementDuration ==
        IF Len(currentData) > 3 THEN NumberOr0(At(currentData, 3)) ELSE 0
  IN IF KeyMetricsThrows(g)
     THEN [ threw |-> TRUE, requests |-> sent, data |-> Undefined ]
     ELSE [ threw |-> FALSE, requests |-> sent, data |-> Some(
       [ visitors          |-> currentVisitors,
         conversions       |-> Some(currentConversions),
         bounceRate        |-> ToString(Min(100, Max(0, currentBounceRate))) \o ".00%",
         visitorsChange    |-> calculateChange(currentVisitors, previousVisitors),
         conversionsChange |-> Some(calculateChange(currentConversions,
                                                    previousConversions)),
         bounceRateChange  |-> calculateChange(currentBounceRate, previousBounceRate),
         activeUsers       |-> Some(activeUsers),
         newUsers          |-> Some(newUsers),
         eventCount        |-> Some(IF actualEventCount > 0 THEN actualEventCount
                                                            ELSE eventCount),
         avgEngagementTime |-> Some(EngagementTime(userEngagementDuration)),
         viewsCount        |-> Some(IF actualViewsCount > 0 THEN actualViewsCount ELSE 0),
         userStickiness    |-> IF dauPerMau > 0
                               THEN Some(ToFixed1(dauPerMau, 10) \o "%")
                               ELSE Undefined,
         sessionsByChannel |-> Some(sessionsByChannel),
         sessionsBySource  |-> Some(sessionsBySource),
         viewsByPage       |-> Some(viewsByPage),
         usersByCountry    |-> Some(usersByCountry),
         deviceBreakdown   |-> Breakdown(curRows, 1, Len(curRows)),
         platformBreakdown |-> Breakdown(curRows, 0, Len(curRows)) ]) ]

\* fetchHistoricalData(propertyId, authClient, days = 60): the requests sent
\* when the first ok of its four calls return (the next one throws)
fetchHistoricalData(propertyId, days, ok) ==
  LET reqs == HistoricalRequests(propertyId, days)
  IN [ threw |-> ok < 4, requests |-> SubSeq(reqs, 1, Min(4, ok + 1)) ]

(***************************************************************************)
(* OpenAI service: the historical-trend summary of generateCustomReport    *)
(***************************************************************************)
RECURSIVE SumOf(_, _)
\* half.reduce((sum, day) => sum + day[field], 0)
SumOf(half, field) ==
  IF Len(half) = 0 THEN 0 ELSE Head(half)[field] + SumOf(Tail(half), field)

\* the historical section generateCustomReport builds from dailyTrends
\* (undefined when the list is empty)
trendSummary(trends) ==
  LET midpoint   == Len(trends) \div 2
      firstHalf  == SubSeq(trends, 1, midpoint)
      secondHalf == SubSeq(trends, midpoint + 1, Len(trends))
      \* (sum / half.length).toFixed(1); 0 / 0 is NaN
      Average(half, field) ==
        IF Len(half) = 0 THEN "NaN" ELSE ToFixed1(SumOf(half, field), Len(half))
      \* avgSecondHalf > avgFirstHalf ? "increasing" : "decreasing"; a
      \* comparison with NaN is false
      Trend(field) ==
        IF Len(firstHalf) = 0 \/ Len(secondHalf) = 0 THEN "decreasing"
        ELSE IF SumOf(secondHalf, field) * Len(firstHalf)
                  > SumOf(firstHalf, field) * Len(secondHalf)
             THEN "increasing" ELSE "decreasing"
  IN IF Len(trends) = 0 THEN Undefined
     ELSE Some([ firstHalf  |-> firstHalf,
                 secondHalf |-> secondHalf,
                 avgVisitorsFirstHalf     |-> Average(firstHalf, "visitors"),
                 avgVisitorsSecondHalf    |-> Average(secondHalf, "visitors"),
                 visitorsTrend            |-> Trend("visitors"),
                 avgConversionsFirstHalf  |-> Average(firstHalf, "conversions"),
                 avgConversionsSecondHalf |-> Average(secondHalf, "conversions"),
                 conversionsTrend         |-> Trend("conversions") ])

\* a variant that stores userStickiness as it comes
formatWithoutStickinessDefault(metricsData, websiteId) ==
  [ websiteId         |-> Some(websiteId),
    visitors          |-> Some(metricsData.visitors),
    conversions       |-> Some(0),
    bounceRate        |-> Some(metricsData.bounceRate),
    pageSpeed         |-> Some("3.5s"),
    visitorsChange    |-> Some(metricsData.visitorsChange),
    conversionsChange |-> Some("0%"),
    bounceRateChange  |-> Some(metricsData.bounceRateChange),
    pageSpeedChange   |-> Some("0%"),
    activeUsers       |-> Some(OrNum(metricsData.activeUsers, 0)),
    newUsers          |-> Some(OrNum(metricsData.newUsers, 0)),
    eventCount        |-> Some(OrNum(metricsData.eventCount, 0)),
    avgEngagementTime |-> Some(OrStr(metricsData.avgEngagementTime, "0s")),
    viewsCount        |-> Some(OrNum(metricsData.viewsCount, 0)),
    userStickiness    |-> metricsData.userStickiness,
    sessionsByChannel |-> Some(OrObj(metricsData.sessionsByChannel, EmptyObj)),
    sessionsBySource  |-> Some(OrObj(metricsData.sessionsBySource, EmptyObj)),
    viewsByPage       |-> Some(OrObj(metricsData.viewsByPage, EmptyObj)),
    usersByCountry    |-> Some(OrObj(metricsData.usersByCountry, EmptyObj)) ]

\* formatMetricsForStorage(metricsData, websiteId); every column of the
\* returned row is an optional value, the date column is left out
formatMetricsForStorage(metricsData, websiteId) ==
  [ websiteId         |-> Some(websiteId),
    visitors          |-> Some(metricsData.visitors),
    conversions       |-> Some(0),
    bounceRate        |-> Some(metricsData.bounceRate),
    pageSpeed         |-> Some("3.5s"),
    visitorsChange    |-> Some(metricsData.visitorsChange),
    conversionsChange |-> Some("0%"),
    bounceRateChange  |-> Some(metricsData.bounceRateChange),
    pageSpeedChange   |-> Some("0%"),
    activeUsers       |-> Some(OrNum(metricsData.activeUsers, 0)),
    newUsers          |-> Some(OrNum(metricsData.newUsers, 0)),
    eventCount        |-> Some(OrNum(metricsData.eventCount, 0)),
    avgEngagementTime |-> Some(OrStr(metricsData.avgEngagementTime, "0s")),
    viewsCount        |-> Some(OrNum(metricsData.viewsCount, 0)),
    userStickiness    |-> Some(OrStr(metricsData.userStickiness, "0.0%")),
    sessionsByChannel |-> Some(OrObj(metricsData.sessionsByChannel, EmptyObj)),
    sessionsBySource  |-> Some(OrObj(metricsData.sessionsBySource, EmptyObj)),
    viewsByPage       |-> Some(OrObj(metricsData.viewsByPage, EmptyObj)),
    usersByCountry    |-> Some(OrObj(metricsData.usersByCountry, EmptyObj)) ]

(***************************************************************************)
(* State                                                                   *)
(***************************************************************************)
VARIABLES
  db,       \* the tables: users, websites, metrics, insights, reports, plans
  serial,   \* next value of each table's serial id column
  session,  \* session store: session id -> optional userId
  rq,       \* handlers suspended at an await: slot -> frame
  ev,       \* the last handler step: request, response, external calls
  ga,       \* GA4 service exercised on its own: inputs and results
  oauth2Client  \* credentials of the auth controller's module-level client

vars == << db, serial, session, rq, ev, ga, oauth2Client >>

Tables == { "users", "websites", "metrics", "insights", "reports", "plans" }

Sessions == { "s1" }

Slots == 1..MaxInflight

\* Google accounts a sign-in code can stand for
Accounts == { "demo@example.com", "b@example.com" }

EmptyTable == [ k \in {} |-> 0 ]

Put(table, id, row) ==
  [ k \in DOMAIN table \cup {id} |-> IF k = id THEN row ELSE table[k] ]

Remove(table, ids) == [ k \in DOMAIN table \ ids |-> table[k] ]

\* a frame: the locals of a handler suspended at an await; sent is the status
\* of the response it has already sent (0: none yet)
IdleFrame ==
  [ kind |-> "idle", pc |-> "idle", uid |-> Undefined, wid |-> 0, rid |-> 0, sent |-> 0 ]

NoEvent ==
  [ route |-> "none", uid |-> Undefined, param |-> Undefined, status |-> 0,
    ran |-> FALSE, ext |-> {}, body |-> {}, rid |-> 0, query |-> Undefined,
    days |-> 0, ga4 |-> << >>, backend |-> Undefined, request |-> Undefined ]

\* The observable part of a handler step
Event(route, uid, param, status, ran, ext, body) ==
  [ NoEvent EXCEPT !.route = route, !.uid = uid, !.param = param,
                   !.status = status, !.ran = ran, !.ext = ext, !.body = body ]

(***************************************************************************)
(* Storage (drizzle over PostgreSQL).  Foreign keys of the schema:         *)
(* websites.userId -> users, metrics/insights/reports.websiteId ->         *)
(* websites, reports.userId -> users, all without ON DELETE action.        *)
(***************************************************************************)
\* a variant that returns the first user whatever the email
getFirstUser(d, email) ==
  IF DOMAIN d.users = {} THEN Undefined
  ELSE Some(CHOOSE u \in DOMAIN d.users : \A v \in DOMAIN d.users : u <= v)

getUserByEmail(d, email) ==
  LET hit == { u \in DOMAIN d.users : d.users[u].email = email }
  IN IF hit = {} THEN Undefined ELSE Some(CHOOSE u \in hit : TRUE)

getUserById(d, id) ==
  IF id \in DOMAIN d.users THEN Some(d.users[id]) ELSE Undefined

getWebsitesByUserId(d, userId) ==
  { w \in DOMAIN d.websites : d.websites[w].userId = userId }

getWebsiteById(d, id) ==
  IF id \in DOMAIN d.websites THEN Some(d.websites[id]) ELSE Undefined

MetricsOf(d, w)  == { m \in DOMAIN d.metrics : d.metrics[m].websiteId = Some(w) }

InsightsOf(d, w) == { i \in DOMAIN d.insights : d.insights[i].websiteId = w }

ReportsOf(d, w)  == { r \in DOMAIN d.reports : d.reports[r].websiteId = w }

PlansOf(d, w)    == { p \in DOMAIN d.plans : d.plans[p].websiteId = w }

\* storage.deleteWebsite, first statement
DeleteMetricsOf(d, w)  == [ d EXCEPT !.metrics = Remove(@, MetricsOf(d, w)) ]

\* storage.deleteWebsite, second statement
DeleteInsightsOf(d, w) == [ d EXCEPT !.insights = Remove(@, InsightsOf(d, w)) ]

DeleteAllReports(d, w) == [ d EXCEPT !.reports = EmptyTable ]

\* storage.deleteWebsite, third statement
DeleteReportsOf(d, w)  == [ d EXCEPT !.reports = Remove(@, ReportsOf(d, w)) ]

\* the foreign keys that reference websites.id forbid deleting a
\* website that metrics, insights or reports rows still point to
WebsiteReferenced(d, w) ==
  MetricsOf(d, w) # {} \/ InsightsOf(d, w) # {} \/ ReportsOf(d, w) # {}

\* storage.deleteWebsite, last statement (when the foreign keys allow it)
DeleteWebsiteRow(d, w) == [ d EXCEPT !.websites = Remove(@, {w}) ]

\* orderBy desc(date): rows are dated at insertion, so the newest has the largest id
getLatestMetricsByWebsiteId(d, w) ==
  IF MetricsOf(d, w) = {} THEN Undefined
  ELSE Some(CHOOSE m \in MetricsOf(d, w) : \A n \in MetricsOf(d, w) : n <= m)

getInsightById(d, id) ==
  IF id \in DOMAIN d.insights THEN Some(d.insights[id]) ELSE Undefined

\* a variant that lists every report
getReportsOfAnyUser(d, userId) == DOMAIN d.reports

getReportsByUserId(d, userId) ==
  { r \in DOMAIN d.reports : d.reports[r].userId = userId }

getReportById(d, id) ==
  IF id \in DOMAIN d.reports THEN Some(d.reports[id]) ELSE Undefined

\* storage.updateReport(id, {status}): no row with that id, no effect
updateReport(d, id, status) ==
  IF id \in DOMAIN d.reports
  THEN [ d EXCEPT !.reports[id].status = status ]
  ELSE d

getImplementationPlanById(d, id) ==
  IF id \in DOMAIN d.plans THEN Some(d.plans[id]) ELSE Undefined

removeImplementationPlan(d, id) == [ d EXCEPT !.plans = Remove(@, {id}) ]

\* INSERT ... RETURNING: the row gets the next serial value of its table
Insert(table, row) ==
  /\ db' = [ db EXCEPT ![table] = Put(@, serial[table], row) ]
  /\ serial' = [ serial EXCEPT ![table] = @ + 1 ]

\* rows inserted so far: every id comes from its table's serial
RowsInserted ==
  serial.users + serial.websites + serial.metrics + serial.insights
    + serial.reports + serial.plans - 6

\* the model stops inserting after MaxInserts rows
CanInsert(table) == RowsInserted < MaxInserts

(***************************************************************************)
(* Request parsing                                                         *)
(***************************************************************************)
IsDigit(c) == c \in { "0", "1", "2", "3", "4", "5", "6", "7", "8", "9" }

DigitValue(c) ==
  CASE c = "0" -> 0 [] c = "1" -> 1 [] c = "2" -> 2 [] c = "3" -> 3
    [] c = "4" -> 4 [] c = "5" -> 5 [] c = "6" -> 6 [] c = "7" -> 7
    [] c = "8" -> 8 [] OTHER   -> 9

RECURSIVE ParseDigits(_, _, _)
\* value of the longest run of digits of str that starts at position i
ParseDigits(str, i, acc) ==
  IF i > Len(str) THEN acc
  ELSE IF IsDigit(str[i]) THEN ParseDigits(str, i + 1, acc * 10 + DigitValue(str[i]))
  ELSE acc

\* parseInt(str): optional sign, leading digits; NaN (undefined here) without a digit
parseInt(str) ==
  LET neg   == Len(str) > 0 /\ str[1] = "-"
      first == IF Len(str) > 0 /\ str[1] \in { "-", "+" } THEN 2 ELSE 1
  IN IF first > Len(str) THEN Undefined
     ELSE IF ~IsDigit(str[first]) THEN Undefined
     ELSE Some(IF neg THEN 0 - ParseDigits(str, first, 0)
                      ELSE ParseDigits(str, first, 0))

DefaultDays == 30

MinDays == 1

MaxDays == 90

\* syncMetrics: const { days = 30 } = req.query; parseInt; clamp to 1..90 or 30
validDays(daysParam) ==
  LET parsedDays == IF daysParam = Undefined THEN Some(DefaultDays)
                    ELSE parseInt(daysParam[1])
  IN IF parsedDays # Undefined
     THEN Min(MaxDays, Max(MinDays, parsedDays[1]))
     ELSE DefaultDays

\* :websiteId, :reportId and :planId values a client may put in the path
IdParams == { << "1" >>, << "2" >>, << "x" >> }

\* values of the days query parameter a client may send
DaysParams ==
  { Undefined, Some(<< "7" >>), Some(<< "0" >>), Some(<< "1", "2", "0" >>),
    Some(<< "a", "b" >>), Some(<< "1", "4", "d" >>) }

\* a GA4 backend: authOk, curOk, prevOk, curSecOk and mOk tell whether
\* ga4Service.authenticate, the two primary requests, the secondary requests
\* and the last request return (or throw); auxOk counts the breakdown
\* requests that return; the rest are the rows and values GA4 holds
OkBackend ==
  [ authOk |-> TRUE, curOk |-> TRUE, prevOk |-> TRUE, curN |-> 1, prevN |-> 1,
    curUsers |-> 3, prevUsers |-> 2, curEng |-> 60, prevEng |-> 50,
    curSecOk |-> TRUE, auxOk |-> 4, mOk |-> TRUE, views |-> 14, dau |-> 113 ]

\* GA4 backends the server talks to: one that answers, one that is down
ServerBackends == { OkBackend, [ OkBackend EXCEPT !.curOk = FALSE ] }

\* GA4 backends a sync may meet: each call of the sync failing in turn
SyncBackends ==
  ServerBackends \cup
  { [ OkBackend EXCEPT !.authOk = FALSE ],
    [ OkBackend EXCEPT !.prevOk = FALSE ],
    [ OkBackend EXCEPT !.curSecOk = FALSE ],
    [ OkBackend EXCEPT !.auxOk = 0 ],
    [ OkBackend EXCEPT !.auxOk = 2 ],
    [ OkBackend EXCEPT !.mOk = FALSE ],
    [ OkBackend EXCEPT !.curSecOk = FALSE, !.auxOk = 0, !.mOk = FALSE ] }

(***************************************************************************)
(* Middleware                                                              *)
(***************************************************************************)
authenticateAlways(s) == TRUE

\* authenticate: next() is called only when the session has a userId
authenticate(s) == session[s] # Undefined

\* res.status(401).json({ message: "Unauthorized" }) of the middleware
Unauthorized(route, s, param) ==
  /\ ev' = Event(route, session[s], param, 401, FALSE, {}, {})
  /\ UNCHANGED << db, serial, session, rq, ga, oauth2Client >>

\* app.get(path, authenticate, handler): the handler runs when next() is called
Authenticated(s, route, param, handler) ==
  IF authenticate(s) THEN handler ELSE Unauthorized(route, s, param)

\* a handler answers without touching storage, the session or a frame
Reply(route, s, param, status, ext, body) ==
  /\ ev' = Event(route, session[s], param, status, TRUE, ext, body)
  /\ UNCHANGED << db, serial, session, rq, ga, oauth2Client >>

\* a variant without the ownership check
WebsiteGateAnyOwner(s, p) ==
  LET id == parseInt(p)
  IN IF id = Undefined THEN 400
     ELSE IF getWebsiteById(db, id[1]) = Undefined THEN 404
     ELSE 0

\* the three outcomes every :websiteId handler shares: 400, 404, 403, or 0 to go on
WebsiteGate(s, p) ==
  LET id == parseInt(p)
  IN IF id = Undefined THEN 400
     ELSE IF getWebsiteById(db, id[1]) = Undefined THEN 404
     ELSE IF Some(getWebsiteById(db, id[1])[1].userId) # session[s] THEN 403
     ELSE 0

(***************************************************************************)
(* authController                                                          *)
(***************************************************************************)
getAuthUrl(s) ==
  /\ ev' = Event("getAuthUrl", session[s], Undefined, 200, TRUE, {}, {})
  /\ UNCHANGED << db, serial, session, rq, ga, oauth2Client >>

\* the tokens of a token response: who they stand for, and the two tokens
Tokens(google) ==
  [ account |-> google.account, access |-> google.access, refresh |-> google.refresh ]

\* handleAuthCallback, run without another request in between; google is
\* what Google answers: ok (its calls return), the account the code stands
\* for, the email of the userinfo response and the tokens
handleAuthCallback(s, code, google) ==
  LET route == "handleAuthCallback"
      known == IF google.email = Undefined THEN Undefined
               ELSE getUserByEmail(db, google.email[1])
  IN IF code = Undefined
     THEN /\ ev' = Event(route, session[s], Undefined, 400, TRUE, {}, {})
          /\ UNCHANGED << db, serial, session, rq, ga, oauth2Client >>
     ELSE IF ~google.ok
     THEN /\ ev' = Event(route, session[s], Undefined, 500, TRUE, {"google"}, {})
          /\ UNCHANGED << db, serial, session, rq, ga, oauth2Client >>
     ELSE IF google.email = Undefined
     THEN /\ ev' = Event(route, session[s], Undefined, 400, TRUE, {"google"}, {})
          /\ oauth2Client' = Some(Tokens(google))
          /\ UNCHANGED << db, serial, session, rq, ga >>
     ELSE IF known = Undefined
     THEN /\ CanInsert("users")
          /\ Insert("users", [ email        |-> google.email[1],
                               accessToken  |-> OrStr(google.access, ""),
                               refreshToken |-> OrStr(google.refresh, "") ])
          /\ session' = [ session EXCEPT ![s] = Some(serial.users) ]
          /\ ev' = Event(route, session[s], Undefined, 200, TRUE, {"google"},
                         { << "users", serial.users >> })
          /\ oauth2Client' = Some(Tokens(google))
          /\ UNCHANGED << rq, ga >>
     ELSE /\ db' = [ db EXCEPT
                  !.users[known[1]].accessToken =
                      OrStr(google.access, db.users[known[1]].accessToken),
                  !.users[known[1]].refreshToken =
                      OrStr(google.refresh, db.users[known[1]].refreshToken) ]
          /\ session' = [ session EXCEPT ![s] = known ]
          /\ ev' = Event(route, session[s], Undefined, 200, TRUE, {"google"},
                         { << "users", known[1] >> })
          /\ oauth2Client' = Some(Tokens(google))
          /\ UNCHANGED << serial, rq, ga >>

\* handleAuthCallback up to its first await (oauth2Client.getToken); the
\* code stands for a Google account
handleAuthCallbackStart(s, code, i) ==
  IF code = Undefined
  THEN /\ ev' = Event("handleAuthCallback", session[s], Undefined, 400, TRUE, {}, {})
       /\ UNCHANGED << db, serial, session, rq, ga, oauth2Client >>
  ELSE /\ rq[i].kind = "idle"
       /\ rq' = [ rq EXCEPT ![i] =
                   [ kind |-> "handleAuthCallback", pc |-> "token", uid |-> session[s],
                     wid |-> 0, rid |-> 0, sent |-> 0, sid |-> s, account |-> code[1],
                     tokens |-> Undefined, asked |-> Undefined, email |-> Undefined,
                     user |-> Undefined ] ]
       /\ ev' = Event("handleAuthCallback", session[s], Undefined, 0, TRUE, {}, {})
       /\ UNCHANGED << db, serial, session, ga, oauth2Client >>

\* a variant whose userinfo request takes the client's credentials when
\* the response arrives
UserInfoCredentialsLate(i) == oauth2Client

\* the credentials the userinfo request of frame i carries: those the
\* client held when oauth2.userinfo.get() was called, right after
\* setCredentials (no await in between)
UserInfoCredentials(i) == rq[i].asked

\* handleAuthCallback resumes after an await; google: what Google answers
\* to the awaited call (ok: it returns; tokens; whether an email is reported);
\* throws: the awaited storage call throws
handleAuthCallbackStep(i, google, throws) ==
  LET f     == rq[i]
      route == "handleAuthCallback"
      done(status, ext, body) ==
        /\ rq' = [ rq EXCEPT ![i] = IdleFrame ]
        /\ ev' = Event(route, f.uid, Undefined, status, TRUE, ext, body)
      next(frame, ext) ==
        /\ rq' = [ rq EXCEPT ![i] = frame ]
        /\ ev' = Event(route, f.uid, Undefined, 0, TRUE, ext, {})
      tokens == [ account |-> f.account, access |-> google.access,
                  refresh |-> google.refresh ]
      creds  == UserInfoCredentials(i)
      known  == getUserByEmail(db, f.email[1])
  IN /\ f.kind = "handleAuthCallback"
     /\ UNCHANGED ga
     /\ CASE f.pc = "token" ->
               \* getToken returns: setCredentials(tokens), userinfo.get() is called
               /\ UNCHANGED << db, serial, session >>
               /\ IF ~google.ok THEN done(500, {"google"}, {}) /\ UNCHANGED oauth2Client
                  ELSE /\ oauth2Client' = Some(tokens)
                       /\ next([ f EXCEPT !.pc = "userinfo", !.tokens = Some(tokens),
                                           !.asked = Some(tokens) ], {"google"})
          [] f.pc = "userinfo" ->
               \* a request without any token is refused
               /\ UNCHANGED << db, serial, session, oauth2Client >>
               /\ IF ~google.ok \/ creds = Undefined THEN done(500, {"google"}, {})
                  ELSE IF creds[1].access = Undefined /\ creds[1].refresh = Undefined
                  THEN done(500, {"google"}, {})
                  ELSE IF google.email = Undefined THEN done(400, {"google"}, {})
                  ELSE next([ f EXCEPT !.pc = "lookup",
                                       !.email = Some(creds[1].account) ], {"google"})
          [] f.pc = "lookup" ->
               \* storage.getUserByEmail: user is the row as it is read now
               /\ UNCHANGED << db, serial, session, oauth2Client >>
               /\ IF throws THEN done(500, {}, {})
                  ELSE next([ f EXCEPT !.pc = "upsert",
                                       !.user = IF known = Undefined THEN Undefined
                                                ELSE Some([ id  |-> known[1],
                                                            row |-> db.users[known[1]] ]) ],
                            {})
          [] OTHER ->
               /\ UNCHANGED oauth2Client
               /\ IF throws THEN done(500, {}, {}) /\ UNCHANGED << db, serial, session >>
                  ELSE IF f.user = Undefined
                  THEN IF known # Undefined
                       THEN \* users.email is unique: the insert is refused
                            done(500, {}, {}) /\ UNCHANGED << db, serial, session >>
                       ELSE /\ CanInsert("users")
                            /\ Insert("users",
                                      [ email        |-> f.email[1],
                                        accessToken  |-> OrStr(f.tokens[1].access, ""),
                                        refreshToken |-> OrStr(f.tokens[1].refresh, "") ])
                            /\ session' = [ session EXCEPT ![f.sid] = Some(serial.users) ]
                            /\ done(200, {}, { << "users", serial.users >> })
                  ELSE /\ db' = [ db EXCEPT
                              !.users[f.user[1].id].accessToken =
                                  OrStr(f.tokens[1].access, f.user[1].row.accessToken),
                              !.users[f.user[1].id].refreshToken =
                                  OrStr(f.tokens[1].refresh, f.user[1].row.refreshToken) ]
                       /\ session' = [ session EXCEPT ![f.sid] = Some(f.user[1].id) ]
                       /\ done(200, {}, { << "users", f.user[1].id >> })
                       /\ UNCHANGED serial

getCurrentUser(s) ==
  IF session[s] = Undefined
  THEN Reply("getCurrentUser", s, Undefined, 401, {}, {})
  ELSE IF getUserById(db, session[s][1]) = Undefined
  THEN Reply("getCurrentUser", s, Undefined, 404, {}, {})
  ELSE Reply("getCurrentUser", s, Undefined, 200, {}, { << "users", session[s][1] >> })

\* req.session.destroy, then { success: true }
logout(s) ==
  /\ session' = [ session EXCEPT ![s] = Undefined ]
  /\ ev' = Event("logout", session[s], Undefined, 200, TRUE, {}, {})
  /\ UNCHANGED << db, serial, rq, ga, oauth2Client >>

health(s) ==
  /\ ev' = Event("health", session[s], Undefined, 200, TRUE, {}, {})
  /\ UNCHANGED << db, serial, session, rq, ga, oauth2Client >>

(***************************************************************************)
(* metricsController                                                       *)
(***************************************************************************)
\* ok: the GA4 admin calls return; otherwise one of them throws
getAvailableGa4Properties(s, ok) ==
  LET route == "getAvailableGa4Properties"
      user  == IF session[s] = Undefined THEN Undefined
               ELSE getUserById(db, session[s][1])
  IN IF session[s] = Undefined THEN Reply(route, s, Undefined, 401, {}, {})
     ELSE IF user = Undefined THEN Reply(route, s, Undefined, 400, {}, {})
     ELSE IF user[1].refreshToken = "" THEN Reply(route, s, Undefined, 400, {}, {})
     ELSE IF ok THEN Reply(route, s, Undefined, 200, {"ga4"}, {})
     ELSE Reply(route, s, Undefined, 500, {"ga4"}, {})

getLatestMetrics(s, p) ==
  LET route  == "getLatestMetrics"
      id     == parseInt(p)
      gate   == WebsiteGate(s, p)
      latest == getLatestMetricsByWebsiteId(db, id[1])
  IN IF gate # 0 THEN Reply(route, s, id, gate, {}, {})
     ELSE IF latest = Undefined THEN Reply(route, s, id, 200, {}, {})
     ELSE Reply(route, s, id, 200, {}, { << "metrics", latest[1] >> })

\* the days argument syncMetrics hands to fetchKeyMetrics: none, so the
\* default value of the parameter applies
SyncFetchDays(daysParam) == KeyMetricsDefaultDays

\* syncMetrics with query parameter days against GA4 backend g
syncMetrics(s, p, daysParam, g) ==
  LET route == "syncMetrics"
      id    == parseInt(p)
      gate  == WebsiteGate(s, p)
      user  == getUserById(db, session[s][1])
      fetch == fetchKeyMetrics(db.websites[id[1]].gaPropertyId,
                               SyncFetchDays(daysParam), g)
      sync(status, ext, body, reqs) ==
        [ Event(route, session[s], id, status, TRUE, ext, body)
            EXCEPT !.query = daysParam, !.days = validDays(daysParam), !.ga4 = reqs ]
      google(status, ext, body, reqs) ==
        [ sync(status, ext, body, reqs) EXCEPT !.backend = Some(g) ]
  IN IF gate # 0
     THEN /\ ev' = sync(gate, {}, {}, << >>)
          /\ UNCHANGED << db, serial, session, rq, ga, oauth2Client >>
     ELSE IF user = Undefined \/ (user # Undefined /\ user[1].refreshToken = "")
     THEN /\ ev' = sync(400, {}, {}, << >>)
          /\ UNCHANGED << db, serial, session, rq, ga, oauth2Client >>
     ELSE IF ~g.authOk
     THEN /\ ev' = google(500, {}, {}, << >>)
          /\ UNCHANGED << db, serial, session, rq, ga, oauth2Client >>
     ELSE IF fetch.threw
     THEN /\ ev' = google(500, {"ga4"}, {}, fetch.requests)
          /\ UNCHANGED << db, serial, session, rq, ga, oauth2Client >>
     ELSE /\ CanInsert("metrics")
          /\ Insert("metrics", formatMetricsForStorage(fetch.data[1], id[1]))
          /\ ev' = google(200, {"ga4"}, { << "metrics", serial.metrics >> },
                          fetch.requests)
          /\ UNCHANGED << session, rq, ga, oauth2Client >>

\* syncMetrics up to its first await (storage.getWebsiteById)
syncMetricsStart(s, p, i) ==
  LET route == "syncMetrics"
      id    == parseInt(p)
  IN IF id = Undefined THEN Reply(route, s, id, 400, {}, {})
     ELSE /\ rq[i].kind = "idle"
          /\ rq' = [ rq EXCEPT ![i] =
                      [ kind |-> "syncMetrics", pc |-> "website", uid |-> session[s],
                        wid |-> id[1], rid |-> 0, sent |-> 0, propertyId |-> "",
                        refreshToken |-> "", g |-> Undefined, data |-> Undefined ] ]
          /\ ev' = Event(route, session[s], id, 0, TRUE, {}, {})
          /\ UNCHANGED << db, serial, session, ga, oauth2Client >>

\* a variant that formats what the first request waiting to insert fetched
SyncRowOfFirstWaiting(i) ==
  LET waiting == { k \in Slots : rq[k].kind = "syncMetrics" /\ rq[k].pc = "insert" }
      j == CHOOSE k \in waiting : \A m \in waiting : k <= m
  IN formatMetricsForStorage(rq[j].data[1], rq[j].wid)

\* formatMetricsForStorage(metricsData, parsedWebsiteId) on the handler's locals
SyncRow(i) == formatMetricsForStorage(rq[i].data[1], rq[i].wid)

\* syncMetrics resumes after an await; g: what Google answers to the calls
\* of this request when it resumes at the fetch
syncMetricsStep(i, g) ==
  LET f       == rq[i]
      route   == "syncMetrics"
      website == getWebsiteById(db, f.wid)
      user    == getUserById(db, f.uid[1])
      fetch   == fetchKeyMetrics(f.propertyId, SyncFetchDays(Undefined), g)
      done(status, ext, body, backend) ==
        /\ rq' = [ rq EXCEPT ![i] = IdleFrame ]
        /\ ev' = [ Event(route, f.uid, Some(f.wid), status, TRUE, ext, body)
                     EXCEPT !.backend = backend ]
      next(frame, ext) ==
        /\ rq' = [ rq EXCEPT ![i] = frame ]
        /\ ev' = Event(route, f.uid, Some(f.wid), 0, TRUE, ext, {})
  IN /\ f.kind = "syncMetrics"
     /\ UNCHANGED << session, ga, oauth2Client >>
     /\ CASE f.pc = "website" ->
               /\ UNCHANGED << db, serial >>
               /\ IF website = Undefined THEN done(404, {}, {}, Undefined)
                  ELSE IF Some(website[1].userId) # f.uid
                  THEN done(403, {}, {}, Undefined)
                  ELSE next([ f EXCEPT !.pc = "user",
                                       !.propertyId = website[1].gaPropertyId ], {})
          [] f.pc = "user" ->
               /\ UNCHANGED << db, serial >>
               /\ IF user = Undefined \/ (user # Undefined /\ user[1].refreshToken = "")
                  THEN done(400, {}, {}, Undefined)
                  ELSE next([ f EXCEPT !.pc = "fetch",
                                       !.refreshToken = user[1].refreshToken ], {})
          [] f.pc = "fetch" ->
               /\ UNCHANGED << db, serial >>
               /\ IF ~g.authOk THEN done(500, {}, {}, Some(g))
                  ELSE IF fetch.threw THEN done(500, {"ga4"}, {}, Some(g))
                  ELSE next([ f EXCEPT !.pc = "insert", !.g = Some(g),
                                       !.data = fetch.data ], {"ga4"})
          [] OTHER ->
               \* metrics.websiteId references websites.id
               IF f.wid \notin DOMAIN db.websites
               THEN done(500, {}, {}, f.g) /\ UNCHANGED << db, serial >>
               ELSE /\ CanInsert("metrics")
                    /\ Insert("metrics", SyncRow(i))
                    /\ done(200, {}, { << "metrics", serial.metrics >> }, f.g)

getUserWebsites(s) ==
  IF session[s] = Undefined
  THEN Reply("getUserWebsites", s, Undefined, 401, {}, {})
  ELSE Reply("getUserWebsites", s, Undefined, 200, {},
             { << "websites", w >> : w \in getWebsitesByUserId(db, session[s][1]) })

\* valid: name, domain and gaPropertyId are all present in the body
addWebsite(s, valid, gaPropertyId) ==
  LET route == "addWebsite"
  IN IF session[s] = Undefined THEN Reply(route, s, Undefined, 401, {}, {})
     ELSE IF ~valid THEN Reply(route, s, Undefined, 400, {}, {})
     ELSE /\ CanInsert("websites")
          /\ Insert("websites", [ userId |-> session[s][1],
                                  gaPropertyId |-> gaPropertyId ])
          /\ ev' = Event(route, session[s], Undefined, 201, TRUE, {},
                         { << "websites", serial.websites >> })
          /\ UNCHANGED << session, rq, ga, oauth2Client >>

\* deleteWebsite up to its first storage write: the checks, then the frame
\* is suspended before storage.deleteWebsite
deleteWebsite(s, p, i) ==
  LET route == "deleteWebsite"
      id    == parseInt(p)
  IN IF session[s] = Undefined THEN Reply(route, s, id, 401, {}, {})
     ELSE IF WebsiteGate(s, p) # 0 THEN Reply(route, s, id, WebsiteGate(s, p), {}, {})
     ELSE /\ rq[i].kind = "idle"
          /\ rq' = [ rq EXCEPT ![i] = [ kind |-> "deleteWebsite", pc |-> "metrics",
                                        uid |-> session[s], wid |-> id[1], rid |-> 0,
                                        sent |-> 0 ] ]
          /\ ev' = Event(route, session[s], id, 0, TRUE, {}, {})
          /\ UNCHANGED << db, serial, session, ga, oauth2Client >>

\* one statement of storage.deleteWebsite runs; throws: it fails instead and
\* the handler answers 500
deleteWebsiteStep(i, throws) ==
  LET f     == rq[i]
      w     == f.wid
      route == "deleteWebsite"
      done(status) ==
        /\ rq' = [ rq EXCEPT ![i] = IdleFrame ]
        /\ ev' = Event(route, f.uid, Some(w), status, TRUE, {}, {})
      next(pc) ==
        /\ rq' = [ rq EXCEPT ![i].pc = pc ]
        /\ ev' = Event(route, f.uid, Some(w), 0, TRUE, {}, {})
  IN /\ f.kind = "deleteWebsite"
     /\ UNCHANGED << serial, session, ga, oauth2Client >>
     /\ IF throws THEN done(500) /\ UNCHANGED db
        ELSE CASE f.pc = "metrics"  -> db' = DeleteMetricsOf(db, w) /\ next("insights")
               [] f.pc = "insights" -> db' = DeleteInsightsOf(db, w) /\ next("reports")
               [] f.pc = "reports"  -> db' = DeleteReportsOf(db, w) /\ next("website")
               [] OTHER ->
                    IF WebsiteReferenced(db, w)
                    THEN done(500) /\ UNCHANGED db
                    ELSE db' = DeleteWebsiteRow(db, w) /\ done(200)

(***************************************************************************)
(* insightController                                                       *)
(***************************************************************************)
\* insightsOk: the body carries a non-empty insights array; llmOk: the LLM answers
generateInsightsSummary(s, p, insightsOk, llmOk) ==
  LET route == "generateInsightsSummary"
      id    == parseInt(p)
  IN IF id = Undefined THEN Reply(route, s, id, 400, {}, {})
     ELSE IF ~insightsOk THEN Reply(route, s, id, 400, {}, {})
     ELSE IF WebsiteGate(s, p) # 0 THEN Reply(route, s, id, WebsiteGate(s, p), {}, {})
     ELSE IF llmOk THEN Reply(route, s, id, 200, {"llm"}, {})
     ELSE Reply(route, s, id, 500, {"llm"}, {})

getInsights(s, p) ==
  LET route == "getInsights"
      id    == parseInt(p)
      gate  == WebsiteGate(s, p)
  IN IF gate # 0 THEN Reply(route, s, id, gate, {}, {})
     ELSE Reply(route, s, id, 200, {}, { << "insights", n >> : n \in InsightsOf(db, id[1]) })

\* histOk: fetchHistoricalData returns; llmOk: the LLM answers; n: how many
\* of the generated insights pass validation and are saved
generateInsights(s, p, histOk, llmOk, n) ==
  LET route == "generateInsights"
      id    == parseInt(p)
      gate  == WebsiteGate(s, p)
      user  == getUserById(db, session[s][1])
  IN IF gate # 0 THEN Reply(route, s, id, gate, {}, {})
     ELSE IF user = Undefined \/ (user # Undefined /\ user[1].refreshToken = "")
     THEN Reply(route, s, id, 400, {}, {})
     ELSE IF getLatestMetricsByWebsiteId(db, id[1]) = Undefined
     THEN Reply(route, s, id, 404, {}, {})
     ELSE IF ~histOk THEN Reply(route, s, id, 500, {"ga4"}, {})
     ELSE IF ~llmOk THEN Reply(route, s, id, 500, {"ga4", "llm"}, {})
     ELSE IF n = 0 THEN Reply(route, s, id, 200, {"ga4", "llm"}, {})
     ELSE /\ CanInsert("insights")
          /\ Insert("insights", [ websiteId |-> id[1] ])
          /\ ev' = Event(route, session[s], id, 200, TRUE, {"ga4", "llm"},
                         { << "insights", serial.insights >> })
          /\ UNCHANGED << session, rq, ga, oauth2Client >>

MinQueryLength == 5

\* bodies a client may send as the report query: absent, too short, valid
Queries == { Undefined, Some("why"), Some("why did visitors drop") }

\* generateReport up to the insertion of the pending report; throws: the
\* insertion fails instead
generateReport(s, p, query, i, throws) ==
  LET route == "generateReport"
      id    == parseInt(p)
  IN IF id = Undefined THEN Reply(route, s, id, 400, {}, {})
     ELSE IF query = Undefined THEN Reply(route, s, id, 400, {}, {})
     ELSE IF WebsiteGate(s, p) # 0 THEN Reply(route, s, id, WebsiteGate(s, p), {}, {})
     ELSE IF Len(query[1]) < MinQueryLength THEN Reply(route, s, id, 500, {}, {})
     ELSE IF throws THEN Reply(route, s, id, 500, {}, {})
     ELSE /\ rq[i].kind = "idle"
          /\ CanInsert("reports")
          /\ Insert("reports", [ userId |-> session[s][1], websiteId |-> id[1],
                                 status |-> "pending" ])
          /\ rq' = [ rq EXCEPT ![i] = [ kind |-> "generateReport", pc |-> "metrics",
                                        uid |-> session[s], wid |-> id[1],
                                        rid |-> serial.reports, sent |-> 0 ] ]
          /\ ev' = [ Event(route, session[s], id, 0, TRUE, {}, {})
                       EXCEPT !.rid = serial.reports ]
          /\ UNCHANGED << session, ga, oauth2Client >>

\* what a step of generateReport shows: its response (0: none) and calls
ReportEvent(f, route, status, ext, body) ==
  [ Event(route, f.uid, Some(f.wid), status, TRUE, ext, body) EXCEPT !.rid = f.rid ]

\* the handler returns with a response; its frame is released
Finish(i, status, d) ==
  /\ rq' = [ rq EXCEPT ![i] = IdleFrame ]
  /\ ev' = ReportEvent(rq[i], "generateReport", status, {}, {})
  /\ db' = d

\* the async block moves on to pc (done: it has ended) after calls ext
Background(i, pc, ext, d) ==
  /\ rq' = [ rq EXCEPT ![i] = IF pc = "done" THEN IdleFrame ELSE [ @ EXCEPT !.pc = pc ] ]
  /\ ev' = ReportEvent(rq[i], "generateReport.async", 0, ext, {})
  /\ db' = d

\* await storage.getLatestMetricsByWebsiteId, and updateReport when there is none
AwaitMetrics(i, throws) ==
  IF throws THEN Finish(i, 500, db)
  ELSE IF getLatestMetricsByWebsiteId(db, rq[i].wid) = Undefined
  THEN Finish(i, 404, updateReport(db, rq[i].rid, "failed"))
  ELSE /\ rq' = [ rq EXCEPT ![i].pc = "user" ]
       /\ ev' = ReportEvent(rq[i], "generateReport", 0, {}, {})
       /\ UNCHANGED db

\* a variant that waits for the generation before it answers
RespondAfterGeneration(i) ==
  /\ rq' = [ rq EXCEPT ![i] = IdleFrame ]
  /\ ev' = ReportEvent(rq[i], "generateReport", 202, {"ga4", "llm"},
                       { << "reports", rq[i].rid >> })
  /\ db' = updateReport(db, rq[i].rid, "completed")

\* the async block is started and suspends at its first await; the handler
\* answers 202 { id, status: 'pending' }
RespondAccepted(i) ==
  /\ rq' = [ rq EXCEPT ![i].pc = "generate", ![i].sent = 202 ]
  /\ ev' = ReportEvent(rq[i], "generateReport", 202, {}, { << "reports", rq[i].rid >> })
  /\ UNCHANGED db

\* await storage.getUserById, then updateReport and 400, or the async block and 202
AwaitUser(i, throws) ==
  LET user == getUserById(db, rq[i].uid[1])
  IN IF throws THEN Finish(i, 500, db)
     ELSE IF user = Undefined \/ (user # Undefined /\ user[1].refreshToken = "")
     THEN Finish(i, 400, updateReport(db, rq[i].rid, "failed"))
     ELSE RespondAccepted(i)

\* the GA4 fetches (a failure of theirs is caught inside) and the LLM call
Generate(i, throws) ==
  Background(i, IF throws THEN "catch" ELSE "save", {"ga4", "llm"}, db)

\* a variant whose try block goes on, and throws, after the update
SaveReportThenThrow(i, throws) ==
  Background(i, "catch", {}, updateReport(db, rq[i].rid, "completed"))

\* await storage.updateReport(id, { response, status: 'completed' })
SaveReport(i, throws) ==
  IF throws THEN Background(i, "catch", {}, db)
  ELSE Background(i, "done", {}, updateReport(db, rq[i].rid, "completed"))

\* catch: await storage.updateReport(id, { status: 'failed' }); when this
\* throws as well the rejection is unhandled and the block ends
CatchFailure(i, throws) ==
  IF throws THEN Background(i, "done", {}, db)
  ELSE Background(i, "done", {}, updateReport(db, rq[i].rid, "failed"))

\* generateReport after the insertion, one await at a time.  throws: the
\* awaited call (storage, GA4 or LLM) throws instead of returning
generateReportStep(i, throws) ==
  /\ rq[i].kind = "generateReport"
  /\ UNCHANGED << serial, session, ga, oauth2Client >>
  /\ CASE rq[i].pc = "metrics"  -> AwaitMetrics(i, throws)
       [] rq[i].pc = "user"     -> AwaitUser(i, throws)
       [] rq[i].pc = "generate" -> Generate(i, throws)
       [] rq[i].pc = "save"     -> SaveReport(i, throws)
       [] OTHER                 -> CatchFailure(i, throws)

getReport(s, p) ==
  LET route  == "getReport"
      id     == parseInt(p)
      report == getReportById(db, id[1])
  IN IF id = Undefined THEN Reply(route, s, id, 400, {}, {})
     ELSE IF report = Undefined THEN Reply(route, s, id, 404, {}, {})
     ELSE IF Some(report[1].userId) # session[s] THEN Reply(route, s, id, 403, {}, {})
     ELSE Reply(route, s, id, 200, {}, { << "reports", id[1] >> })

getUserReports(s) ==
  IF session[s] = Undefined
  THEN Reply("getUserReports", s, Undefined, 401, {}, {})
  ELSE Reply("getUserReports", s, Undefined, 200, {},
             { << "reports", r >> : r \in getReportsByUserId(db, session[s][1]) })

(***************************************************************************)
(* implementationPlanController                                            *)
(***************************************************************************)
\* request bodies: insightIds absent (not an array), empty, or a list of ids
InsightIdLists == { Undefined, Some(<< >>), Some(<< 1 >>), Some(<< 2, 1 >>) }

getImplementationPlans(s, p) ==
  LET route == "getImplementationPlans"
      id    == parseInt(p)
      gate  == WebsiteGate(s, p)
  IN IF gate # 0 THEN Reply(route, s, id, gate, {}, {})
     ELSE Reply(route, s, id, 200, {}, { << "plans", n >> : n \in PlansOf(db, id[1]) })

\* the plan's website exists and belongs to the session user
OwnsPlan(s, plan) ==
  LET website == getWebsiteById(db, plan.websiteId)
  IN IF website = Undefined THEN FALSE ELSE Some(website[1].userId) = session[s]

getImplementationPlan(s, p) ==
  LET route == "getImplementationPlan"
      id    == parseInt(p)
      plan  == getImplementationPlanById(db, id[1])
  IN IF id = Undefined THEN Reply(route, s, id, 400, {}, {})
     ELSE IF plan = Undefined THEN Reply(route, s, id, 404, {}, {})
     ELSE IF ~OwnsPlan(s, plan[1]) THEN Reply(route, s, id, 403, {}, {})
     ELSE Reply(route, s, id, 200, {}, { << "plans", id[1] >> })

\* a variant that keeps every selected id
SelectedInsights(insightIds, w) == 1..Len(insightIds)

\* the selected insights that exist and belong to website w
ValidInsights(insightIds, w) ==
  { k \in 1..Len(insightIds) :
      /\ getInsightById(db, insightIds[k]) # Undefined
      /\ getInsightById(db, insightIds[k])[1].websiteId = w }

\* llmOk: the LLM answers and its plan passes validation; the event keeps
\* the request and the insights handed to the LLM
generateImplementationPlan(s, p, insightIds, llmOk) ==
  LET route == "generateImplementationPlan"
      id    == parseInt(p)
      sent(status, ext, body, used) ==
        ev' = [ Event(route, session[s], id, status, TRUE, ext, body) EXCEPT
                  !.request = Some([ insightIds |-> insightIds, llmOk |-> llmOk,
                                     used |-> used ]) ]
      reply(status) ==
        /\ sent(status, {}, {}, {})
        /\ UNCHANGED << db, serial, session, rq, ga, oauth2Client >>
      insights == { insightIds[1][k] : k \in ValidInsights(insightIds[1], id[1]) }
  IN IF id = Undefined THEN reply(400)
     ELSE IF insightIds = Undefined THEN reply(400)
     ELSE IF Len(insightIds[1]) = 0 THEN reply(400)
     ELSE IF WebsiteGate(s, p) # 0 THEN reply(WebsiteGate(s, p))
     ELSE IF ValidInsights(insightIds[1], id[1]) = {} THEN reply(404)
     ELSE IF ~llmOk
     THEN /\ sent(500, {"llm"}, {}, insights)
          /\ UNCHANGED << db, serial, session, rq, ga, oauth2Client >>
     ELSE /\ CanInsert("plans")
          /\ Insert("plans", [ websiteId |-> id[1], insightIds |-> insightIds[1] ])
          /\ sent(201, {"llm"}, { << "plans", serial.plans >> }, insights)
          /\ UNCHANGED << session, rq, ga, oauth2Client >>

deleteImplementationPlan(s, p) ==
  LET route == "deleteImplementationPlan"
      id    == parseInt(p)
      plan  == getImplementationPlanById(db, id[1])
  IN IF id = Undefined THEN Reply(route, s, id, 400, {}, {})
     ELSE IF plan = Undefined THEN Reply(route, s, id, 404, {}, {})
     ELSE IF ~OwnsPlan(s, plan[1]) THEN Reply(route, s, id, 403, {}, {})
     ELSE /\ db' = removeImplementationPlan(db, id[1])
          /\ ev' = Event(route, session[s], id, 200, TRUE, {}, {})
          /\ UNCHANGED << serial, session, rq, ga, oauth2Client >>

(***************************************************************************)
(* The server                                                              *)
(***************************************************************************)
GaIdle == [ pc |-> "off" ]

\* the database after the seed script: the demo user, its website, one
\* metrics row (the optional columns take the schema's defaults) and the
\* sample insights (one stands for the four)
seed ==
  [ users    |-> Put(EmptyTable, 1, [ email        |-> "demo@example.com",
                                      accessToken  |-> "demo_access_token",
                                      refreshToken |-> "demo_refresh_token" ]),
    websites |-> Put(EmptyTable, 1, [ userId |-> 1, gaPropertyId |-> "123456789" ]),
    metrics  |-> Put(EmptyTable, 1,
                   [ websiteId         |-> Some(1),
                     visitors          |-> Some(24582),
                     conversions       |-> Some(1284),
                     bounceRate        |-> Some("42.8%"),
                     pageSpeed         |-> Some("2.4s"),
                     visitorsChange    |-> Some("12.3%"),
                     conversionsChange |-> Some("8.7%"),
                     bounceRateChange  |-> Some("-3.2%"),
                     pageSpeedChange   |-> Some("5.1%"),
                     activeUsers       |-> Some(0),
                     newUsers          |-> Some(0),
                     eventCount        |-> Some(0),
                     avgEngagementTime |-> Some("0s"),
                     viewsCount        |-> Some(0),
                     userStickiness    |-> Some("0.0%"),
                     sessionsByChannel |-> Some(EmptyObj),
                     sessionsBySource  |-> Some(EmptyObj),
                     viewsByPage       |-> Some(EmptyObj),
                     usersByCountry    |-> Some(EmptyObj) ]),
    insights |-> Put(EmptyTable, 1, [ websiteId |-> 1 ]),
    reports  |-> EmptyTable,
    plans    |-> EmptyTable ]

\* the server starts on the seeded database, with no session signed in and
\* no request in flight
Init ==
  /\ db = seed
  /\ serial = [ t \in Tables |-> Cardinality(DOMAIN seed[t]) + 1 ]
  /\ session = [ s \in Sessions |-> Undefined ]
  /\ rq = [ i \in Slots |-> IdleFrame ]
  /\ ev = NoEvent
  /\ ga = GaIdle
  /\ oauth2Client = Undefined

\* Google accepts the code and reports the account's email and fresh tokens
GoogleAccepts(account) ==
  [ ok |-> TRUE, account |-> account, email |-> Some(account),
    access |-> Some("at"), refresh |-> Some("rt") ]

\* a new frame takes the lowest free slot
LowestFree(i) == \A j \in 1..(i - 1) : rq[j].kind # "idle"

\* the response, if any, has been written; the event loop takes the next callback
Flush ==
  /\ ev # NoEvent
  /\ ev' = NoEvent
  /\ UNCHANGED << db, serial, session, rq, ga, oauth2Client >>

(***************************************************************************)
(* Spec: one signed-in user works with websites, metrics, insights and     *)
(* reports; requests overlap (a handler suspended at an await lets the     *)
(* others run).                                                            *)
(***************************************************************************)
\* ids of rows a run may hold
LiveIds == { << "1" >>, << "2" >> }

\* the server takes the next step once the last one has been observed
Ready == ev = NoEvent

SignIn ==
  /\ Ready
  /\ \E s \in Sessions :
       handleAuthCallback(s, Some("code"), GoogleAccepts("demo@example.com"))

AddWebsite ==
  /\ Ready
  /\ \E s \in Sessions :
       Authenticated(s, "addWebsite", Undefined,
                     addWebsite(s, TRUE, "p1"))

GenerateReport ==
  /\ Ready
  /\ \E s \in Sessions, p \in LiveIds, i \in Slots :
       /\ LowestFree(i)
       /\ Authenticated(s, "generateReport", parseInt(p),
                        generateReport(s, p, Some("why did visitors drop"), i, FALSE))

DeleteWebsite ==
  /\ Ready
  /\ \E s \in Sessions, p \in LiveIds, i \in Slots :
       /\ LowestFree(i)
       /\ Authenticated(s, "deleteWebsite", parseInt(p),
                        deleteWebsite(s, p, i))

PollReport ==
  /\ Ready
  /\ \E s \in Sessions, p \in LiveIds :
       Authenticated(s, "getReport", parseInt(p),
                     getReport(s, p))

ResumeDelete == Ready /\ \E i \in Slots, throws \in BOOLEAN : deleteWebsiteStep(i, throws)

ResumeReport == Ready /\ \E i \in Slots, throws \in BOOLEAN : generateReportStep(i, throws)

\* report generation and website deletion, interleaved at their awaits
Next ==
  \/ SignIn
  \/ AddWebsite
  \/ GenerateReport
  \/ DeleteWebsite
  \/ PollReport
  \/ ResumeDelete
  \/ ResumeReport
  \/ Flush

Spec == Init /\ [][Next]_vars

(***************************************************************************)
(* Report lifecycle                                                        *)
(***************************************************************************)
Terminal == { "completed", "failed" }

\* C1: a report is created with status 'pending', and once its status is
\* 'completed' or 'failed' no step changes that status again.
C1_ReportLifecycle ==
  [][ \A r \in DOMAIN db'.reports :
        /\ r \notin DOMAIN db.reports => db'.reports[r].status = "pending"
        /\ (r \in DOMAIN db.reports /\ db.reports[r].status \in Terminal)
             => db'.reports[r].status = db.reports[r].status ]_vars

\* C1 witness: the client polls a report that has been completed
C1_Witness ==
  /\ ev.route = "getReport"
  /\ ev.status = 200
  /\ \E r \in DOMAIN db.reports :
       << "reports", r >> \in ev.body /\ db.reports[r].status = "completed"

\* some frame is still working on report r
InProgress(r) == \E i \in Slots : rq[i].kind = "generateReport" /\ rq[i].rid = r

\* C2: every report leaves 'pending': once each call of its generateReport
\* has returned or thrown (no frame works on it any more) the report is
\* 'completed' or 'failed'.
C2_LeavesPending ==
  \A r \in DOMAIN db.reports : db.reports[r].status = "pending" => InProgress(r)

\* the row the 202 answer of generateReport names exists, is pending, and
\* belongs to the session user and the website of the path
AcceptedRowPending(e, d) ==
  /\ e.rid \in DOMAIN d.reports
  /\ d.reports[e.rid].status = "pending"
  /\ Some(d.reports[e.rid].userId) = e.uid
  /\ Some(d.reports[e.rid].websiteId) = e.param

\* C3 as stated: whenever generateReport answers 202, the report row with
\* the returned id exists, is pending, and is owned by the session user and
\* the website of the path.
C3_AcceptedRowExists ==
  (ev.route = "generateReport" /\ ev.status = 202) => AcceptedRowPending(ev, db)

\* C3 amended: when generateReport answers 202 the report with the returned
\* id has been inserted and, unless a deleteWebsite of that website has
\* removed it meanwhile, is pending and owned by the session user and the
\* website of the path; a step that completes a report, or fails it without
\* answering 404 or 400 itself, is taken by a frame that has sent its 202.
C3_AcceptedBeforeGeneration ==
  [][ /\ (ev'.route = "generateReport" /\ ev'.status = 202)
           => /\ ev'.rid < serial'.reports
              /\ ev'.rid \in DOMAIN db'.reports => AcceptedRowPending(ev', db')
      /\ \A r \in DOMAIN db.reports \cap DOMAIN db'.reports :
           db'.reports[r].status # db.reports[r].status
             => \/ \E i \in Slots : rq[i].rid = r /\ rq[i].sent = 202
                \/ /\ db'.reports[r].status = "failed"
                   /\ ev'.status \in { 400, 404 } ]_vars

\* C3 witness: a 202 has been sent and its report is pending
C3_Witness ==
  /\ ev.route = "generateReport"
  /\ ev.status = 202
  /\ AcceptedRowPending(ev, db)

(***************************************************************************)
(* Website deletion                                                        *)
(***************************************************************************)
\* the rows of the tables that do not belong to website w
Others(d, w) ==
  [ websites |-> Remove(d.websites, {w}),
    metrics  |-> Remove(d.metrics, MetricsOf(d, w)),
    insights |-> Remove(d.insights, InsightsOf(d, w)),
    reports  |-> Remove(d.reports, ReportsOf(d, w)),
    users    |-> d.users ]

\* C7: no step of deleteWebsite(w) changes a website other than w or a
\* metrics row, insight or report of another website, and when it answers
\* 200 the website w and all its metrics, insights and reports are gone.
C7_DeleteWebsiteFrame ==
  [][ \A i \in Slots :
        (rq[i].kind = "deleteWebsite" /\ rq'[i] # rq[i])
          => /\ Others(db', rq[i].wid) = Others(db, rq[i].wid)
             /\ ev'.status = 200
                  => /\ rq[i].wid \notin DOMAIN db'.websites
                     /\ MetricsOf(db', rq[i].wid) = {}
                     /\ InsightsOf(db', rq[i].wid) = {}
                     /\ ReportsOf(db', rq[i].wid) = {} ]_vars

\* C7 witness: a website that had a metrics row has been deleted with 200
\* while another website and a report of it remain
C7_Witness ==
  /\ ev.route = "deleteWebsite"
  /\ ev.status = 200
  /\ serial.metrics > 1
  /\ DOMAIN db.metrics = {}
  /\ DOMAIN db.websites # {}
  /\ DOMAIN db.reports # {}

(***************************************************************************)
(* Metrics synchronisation                                                 *)
(***************************************************************************)
SyncWithDays ==
  /\ Ready
  /\ \E s \in Sessions, p \in LiveIds, q \in DaysParams, g \in SyncBackends :
       Authenticated(s, "syncMetrics", parseInt(p), syncMetrics(s, p, q, g))

SyncNext == SignIn \/ AddWebsite \/ SyncWithDays \/ Flush

SyncSpec == Init /\ [][SyncNext]_vars

\* the number of days the days query parameter q stands for
EffectiveDays(q) ==
  IF q = Undefined THEN DefaultDays
  ELSE IF parseInt(q[1]) = Undefined THEN DefaultDays
  ELSE Min(MaxDays, Max(MinDays, parseInt(q[1])[1]))

\* C8: a syncMetrics request that reaches its handler works with the days
\* parameter parsed and clamped to 1..90, or 30 when it is absent or not a
\* number, and every GA4 request of the sync uses that number of days for
\* its current range (n days ago to today) or its previous range (2n days
\* ago to n+1 days ago).
C8_SyncUsesRequestedDays ==
  (ev.route = "syncMetrics" /\ ev.ran) =>
    LET n == EffectiveDays(ev.query)
    IN /\ ev.days = n
       /\ \A k \in 1..Len(ev.ga4) :
            \/ /\ ev.ga4[k].startDate = DaysAgo(n)
               /\ ev.ga4[k].endDate = "today"
            \/ /\ ev.ga4[k].startDate = DaysAgo(2 * n)
               /\ ev.ga4[k].endDate = DaysAgo(n + 1)

\* C15: a syncMetrics that got as far as Google answers 500 and changes no
\* row when ga4Service.authenticate or a primary request (current or
\* previous period) fails; otherwise it answers 200 and inserts exactly one
\* metrics row, of the website of the path, in which the fields whose
\* requests failed have their defaults: newUsers 0 without the secondary
\* batch, the breakdown maps {} from the first breakdown request that
\* failed on, viewsCount 0 and userStickiness '0.0%' without the last
\* request, eventCount 0 without both the secondary batch and the last
\* request.
C15_SyncStoresOnSuccessOnly ==
  [][ (ev'.route = "syncMetrics" /\ ev'.backend # Undefined) =>
        LET g == ev'.backend[1]
            n == serial.metrics
        IN IF ~g.authOk \/ ~g.curOk \/ ~g.prevOk
           THEN ev'.status = 500 /\ db' = db /\ serial' = serial
           ELSE /\ ev'.status = 200
                /\ serial' = [ serial EXCEPT !.metrics = n + 1 ]
                /\ n \in DOMAIN db'.metrics
                /\ db' = [ db EXCEPT !.metrics = Put(@, n, db'.metrics[n]) ]
                /\ db'.metrics[n].websiteId = ev'.param
                /\ ~g.curSecOk => db'.metrics[n].newUsers = Some(0)
                /\ (~g.curSecOk /\ ~g.mOk) => db'.metrics[n].eventCount = Some(0)
                /\ g.auxOk < 1 => db'.metrics[n].sessionsByChannel = Some(EmptyObj)
                /\ g.auxOk < 2 => db'.metrics[n].sessionsBySource = Some(EmptyObj)
                /\ g.auxOk < 3 => db'.metrics[n].viewsByPage = Some(EmptyObj)
                /\ g.auxOk < 4 => db'.metrics[n].usersByCountry = Some(EmptyObj)
                /\ ~g.mOk => /\ db'.metrics[n].viewsCount = Some(0)
                             /\ db'.metrics[n].userStickiness = Some("0.0%") ]_vars

\* C15 witness: a sync whose secondary batch, breakdown requests and last
\* request all failed has stored its row
C15_Witness ==
  /\ ev.route = "syncMetrics"
  /\ ev.status = 200
  /\ ev.backend # Undefined
  /\ ~ev.backend[1].curSecOk
  /\ ev.backend[1].auxOk = 0
  /\ ~ev.backend[1].mOk
  /\ \E n \in DOMAIN db.metrics :
       /\ << "metrics", n >> \in ev.body
       /\ db.metrics[n].newUsers = Some(0)
       /\ db.metrics[n].visitors = Some(3)

(***************************************************************************)
(* Overlapping syncs: a syncMetrics suspended at an await lets another run *)
(***************************************************************************)
\* what Google may answer to a sync: two properties' worth of values, or down
OverlapBackends ==
  { OkBackend, [ OkBackend EXCEPT !.curUsers = 5 ], [ OkBackend EXCEPT !.curOk = FALSE ] }

StartSync ==
  /\ Ready
  /\ \E s \in Sessions, p \in LiveIds, i \in Slots :
       /\ LowestFree(i)
       /\ Authenticated(s, "syncMetrics", parseInt(p), syncMetricsStart(s, p, i))

ResumeSync == Ready /\ \E i \in Slots, g \in OverlapBackends : syncMetricsStep(i, g)

OverlapNext == SignIn \/ AddWebsite \/ StartSync \/ ResumeSync \/ Flush

OverlapSpec == Init /\ [][OverlapNext]_vars

\* C12: whatever other sync is in flight, a step of a syncMetrics request
\* changes the tables only when it answers 200, and then it inserts exactly
\* one metrics row: the row formatMetricsForStorage makes, for the website
\* of this request, of what fetchKeyMetrics returns on the GA4 responses
\* this request obtained.
C12_SyncsDoNotMix ==
  [][ ev'.route = "syncMetrics" =>
        IF ev'.status = 200
        THEN LET n == serial.metrics
                 w == ev'.param[1]
             IN /\ serial' = [ serial EXCEPT !.metrics = n + 1 ]
                /\ w \in DOMAIN db.websites
                /\ ev'.backend # Undefined
                /\ db' = [ db EXCEPT !.metrics = Put(@, n,
                            formatMetricsForStorage(
                              fetchKeyMetrics(db.websites[w].gaPropertyId,
                                              KeyMetricsDefaultDays,
                                              ev'.backend[1]).data[1], w)) ]
        ELSE db' = db /\ serial' = serial ]_vars

\* C12 witness: a sync has stored its row while another sync, which
\* obtained other GA4 responses, is waiting to store its own
C12_Witness ==
  /\ ev.route = "syncMetrics"
  /\ ev.status = 200
  /\ \E j \in Slots :
       /\ rq[j].kind = "syncMetrics"
       /\ rq[j].pc = "insert"
       /\ rq[j].g # ev.backend

(***************************************************************************)
(* Overlapping sign-ins: two browsers come back from Google at once        *)
(***************************************************************************)
AuthSessions == { "s1", "s2" }

\* what Google may answer to a call of a callback: everything, no refresh
\* token, no access token, an error, no email
GoogleAnswers ==
  LET all == GoogleAccepts("demo@example.com")
  IN { all, [ all EXCEPT !.refresh = Undefined ], [ all EXCEPT !.access = Undefined ],
       [ all EXCEPT !.ok = FALSE ], [ all EXCEPT !.email = Undefined ] }

AuthInit ==
  /\ db = seed
  /\ serial = [ t \in Tables |-> Cardinality(DOMAIN seed[t]) + 1 ]
  /\ session = [ s \in AuthSessions |-> Undefined ]
  /\ rq = [ i \in Slots |-> IdleFrame ]
  /\ ev = NoEvent
  /\ ga = GaIdle
  /\ oauth2Client = Undefined

StartCallback ==
  /\ Ready
  /\ \E s \in AuthSessions, code \in { Undefined } \cup { Some(a) : a \in Accounts },
        i \in Slots :
       /\ LowestFree(i)
       /\ \A j \in Slots : rq[j].kind = "handleAuthCallback" => rq[j].sid # s
       /\ handleAuthCallbackStart(s, code, i)

ResumeCallback ==
  /\ Ready
  /\ \E i \in Slots, google \in GoogleAnswers, throws \in BOOLEAN :
       handleAuthCallbackStep(i, google, throws)

AuthNext == StartCallback \/ ResumeCallback \/ Flush

AuthSpec == AuthInit /\ [][AuthNext]_vars

\* the callback in slot i answers 200 in this step
SignsIn(i) ==
  /\ rq[i].kind = "handleAuthCallback"
  /\ rq'[i].kind = "idle"
  /\ ev'.status = 200

Upserts(i) ==
  /\ rq[i].kind = "handleAuthCallback"
  /\ rq[i].pc = "upsert"
  /\ rq'[i].kind = "idle"

\* what a token column holds after a callback whose token response
\* carries token, when the column is to keep kept otherwise
TokenAfter(token, kept) == IF token = Undefined THEN kept ELSE token[1]

\* C16 as stated: a row of an existing user changes only in the callback
\* that looked this user up; a token column then holds the token Google
\* sent, or, when the response lacks it, the value stored before; a stored
\* token never becomes empty.
C16_StoredTokenKept ==
  [][ \A u \in DOMAIN db.users :
        db'.users[u] # db.users[u] =>
          \E i \in Slots :
            /\ Upserts(i)
            /\ rq[i].user = Some([ id |-> u, row |-> rq[i].user[1].row ])
            /\ db'.users[u].accessToken =
                 TokenAfter(rq[i].tokens[1].access, db.users[u].accessToken)
            /\ db'.users[u].refreshToken =
                 TokenAfter(rq[i].tokens[1].refresh, db.users[u].refreshToken)
            /\ db.users[u].accessToken # "" => db'.users[u].accessToken # ""
            /\ db.users[u].refreshToken # "" => db'.users[u].refreshToken # "" ]_vars

\* C16, amended: a row of an existing user changes only in the callback
\* that looked this user up; a token column then holds the token Google
\* sent, or, when the response lacks it, the value this callback read when
\* it looked the user up; if the row has not changed since that lookup,
\* this is the stored value, and a stored token does not become empty.
C16_ReadTokenKept ==
  [][ \A u \in DOMAIN db.users :
        db'.users[u] # db.users[u] =>
          \E i \in Slots :
            /\ Upserts(i)
            /\ rq[i].user # Undefined
            /\ rq[i].user[1].id = u
            /\ db'.users[u].accessToken =
                 TokenAfter(rq[i].tokens[1].access, rq[i].user[1].row.accessToken)
            /\ db'.users[u].refreshToken =
                 TokenAfter(rq[i].tokens[1].refresh, rq[i].user[1].row.refreshToken)
            /\ rq[i].user[1].row = db.users[u] =>
                 /\ db.users[u].accessToken # "" => db'.users[u].accessToken # ""
                 /\ db.users[u].refreshToken # "" => db'.users[u].refreshToken # ""
            /\ \A v \in DOMAIN db.users \ { u } : db'.users[v] = db.users[v] ]_vars

\* C16 witness: the demo user has signed in again with a response that
\* lacks the refresh token: the access token is the new one, the refresh
\* token is the one of the seed
C16_Witness ==
  /\ ev.route = "handleAuthCallback"
  /\ ev.status = 200
  /\ ev.body = { << "users", 1 >> }
  /\ db.users[1].accessToken = "at"
  /\ db.users[1].refreshToken = seed.users[1].refreshToken
  /\ seed.users[1].refreshToken # ""

\* C17: session.userId changes only in a step in which a handleAuthCallback
\* answers 200, and is then the id of the user row whose email is the one
\* Google reported to this callback; a callback that answers 400 or 500
\* leaves every session as it was, one never signed in without a userId.
C17_SessionSetOnSuccessOnly ==
  [][ /\ session' # session =>
           \E i \in Slots :
             /\ SignsIn(i)
             /\ rq[i].email # Undefined
             /\ \E u \in DOMAIN db'.users :
                  /\ db'.users[u].email = rq[i].email[1]
                  /\ session' = [ session EXCEPT ![rq[i].sid] = Some(u) ]
      /\ ev'.route = "handleAuthCallback" /\ ev'.status \in { 400, 500 } =>
           session' = session ]_vars

\* C17 witness: one callback has failed after Google reported no email and
\* its session has no userId, another has signed in a new user
C17_Witness ==
  /\ ev.route = "handleAuthCallback"
  /\ ev.status = 400
  /\ ev.ext = { "google" }
  /\ session["s1"] = Undefined
  /\ session["s2"] = Some(2)
  /\ db.users[2].email = "b@example.com"

(***************************************************************************)
(* The GA4 service on its own                                              *)
(***************************************************************************)
\* GA4 backends: which calls return, how many rows they hold, their values
Backends ==
  { [ OkBackend EXCEPT !.curOk = c, !.prevOk = q, !.curN = n, !.prevN = m,
                       !.curUsers = u, !.prevUsers = v, !.curSecOk = so,
                       !.auxOk = a, !.mOk = mo, !.dau = dd ] :
      c \in BOOLEAN, q \in BOOLEAN, n \in 0..MaxRows, m \in 0..MaxRows,
      u \in { 0, 3 }, v \in { 0, 2 }, so \in BOOLEAN, a \in { 0, 2, 4 },
      mo \in BOOLEAN, dd \in { 0, 113 } }

SomeObj == SetKey(EmptyObj, "google", 8)

\* GA4MetricsData values: the required fields, and each optional field
\* defined or not (0 and '' are the falsy defined values)
MetricsInputs ==
  [ visitors          : { 0, 7 },
    conversions       : { Undefined },
    bounceRate        : { "40.00%" },
    visitorsChange    : { "+5.0%" },
    conversionsChange : { Undefined },
    bounceRateChange  : { "0%" },
    activeUsers       : { Undefined, Some(0), Some(9) },
    newUsers          : { Undefined, Some(3) },
    eventCount        : { Undefined, Some(5) },
    avgEngagementTime : { Undefined, Some(""), Some("1m 5s") },
    viewsCount        : { Undefined, Some(4) },
    userStickiness    : { Undefined, Some("11.3%") },
    sessionsByChannel : { Undefined, Some(EmptyObj), Some(SomeObj) },
    sessionsBySource  : { Undefined, Some(SomeObj) },
    viewsByPage       : { Undefined, Some(SomeObj) },
    usersByCountry    : { Undefined, Some(SomeObj) } ]

\* the input whose optional fields are all undefined
BareInput ==
  [ visitors |-> 7, conversions |-> Undefined, bounceRate |-> "40.00%",
    visitorsChange |-> "+5.0%", conversionsChange |-> Undefined,
    bounceRateChange |-> "0%", activeUsers |-> Undefined, newUsers |-> Undefined,
    eventCount |-> Undefined, avgEngagementTime |-> Undefined,
    viewsCount |-> Undefined, userStickiness |-> Undefined,
    sessionsByChannel |-> Undefined, sessionsBySource |-> Undefined,
    viewsByPage |-> Undefined, usersByCountry |-> Undefined ]

Ga4Input(g, days, md) ==
  [ pc |-> "input", g |-> g, days |-> days, md |-> md, requests |-> << >>,
    threw |-> FALSE, data |-> Undefined, row |-> Undefined ]

Ga4Init ==
  /\ db = seed
  /\ serial = [ t \in Tables |-> Cardinality(DOMAIN seed[t]) + 1 ]
  /\ session = [ s \in Sessions |-> Undefined ]
  /\ rq = [ i \in Slots |-> IdleFrame ]
  /\ ev = NoEvent
  /\ oauth2Client = Undefined
  /\ ga \in { Ga4Input(g, days, BareInput) : g \in Backends, days \in { 7, 30 } }
            \cup { Ga4Input(OkBackend, 30, md) : md \in MetricsInputs }

Ga4FetchKeyMetrics ==
  /\ ga.pc = "input"
  /\ LET r == fetchKeyMetrics("123456789", ga.days, ga.g)
     IN ga' = [ ga EXCEPT !.pc = "fetched", !.requests = r.requests,
                          !.threw = r.threw, !.data = r.data ]
  /\ UNCHANGED << db, serial, session, rq, ev, oauth2Client >>

Ga4FetchHistoricalData ==
  /\ ga.pc = "input"
  /\ \E ok \in 0..4 :
       LET r == fetchHistoricalData("123456789", ga.days, ok)
       IN ga' = [ ga EXCEPT !.pc = "history", !.requests = r.requests,
                            !.threw = r.threw ]
  /\ UNCHANGED << db, serial, session, rq, ev, oauth2Client >>

Ga4FormatInput ==
  /\ ga.pc = "input"
  /\ ga' = [ ga EXCEPT !.pc = "formatted",
                       !.row = Some(formatMetricsForStorage(ga.md, 1)) ]
  /\ UNCHANGED << db, serial, session, rq, ev, oauth2Client >>

Ga4FormatFetched ==
  /\ ga.pc = "fetched"
  /\ ga.data # Undefined
  /\ ga' = [ ga EXCEPT !.pc = "stored",
                       !.row = Some(formatMetricsForStorage(ga.data[1], 1)) ]
  /\ UNCHANGED << db, serial, session, rq, ev, oauth2Client >>

Ga4Next ==
  \/ Ga4FetchKeyMetrics
  \/ Ga4FetchHistoricalData
  \/ Ga4FormatInput
  \/ Ga4FormatFetched

Ga4Spec == Ga4Init /\ [][Ga4Next]_vars

\* C9: every runReport request fetchKeyMetrics or fetchHistoricalData has
\* sent lists at most 10 metrics.
C9_AtMostTenMetrics ==
  \A k \in 1..Len(ga.requests) : Len(ga.requests[k].metrics) <= GA4MetricLimit

\* what formatMetricsForStorage was applied to
FormatInput == IF ga.pc = "stored" THEN ga.data[1] ELSE ga.md

\* every column of the stored row is defined, and an optional field that is
\* undefined in the input has its default in the row
DefaultsBackfilled ==
  ga.row # Undefined =>
    LET md  == FormatInput
        row == ga.row[1]
    IN /\ \A c \in DOMAIN row : row[c] # Undefined
       /\ md.activeUsers = Undefined => row.activeUsers = Some(0)
       /\ md.newUsers = Undefined => row.newUsers = Some(0)
       /\ md.eventCount = Undefined => row.eventCount = Some(0)
       /\ md.viewsCount = Undefined => row.viewsCount = Some(0)
       /\ md.avgEngagementTime = Undefined => row.avgEngagementTime = Some("0s")
       /\ md.userStickiness = Undefined => row.userStickiness = Some("0.0%")
       /\ md.sessionsByChannel = Undefined => row.sessionsByChannel = Some(EmptyObj)
       /\ md.sessionsBySource = Undefined => row.sessionsBySource = Some(EmptyObj)
       /\ md.viewsByPage = Undefined => row.viewsByPage = Some(EmptyObj)
       /\ md.usersByCountry = Undefined => row.usersByCountry = Some(EmptyObj)

\* fetchKeyMetrics has run against responses that all returned without rows
FetchedNoRows ==
  /\ ga.pc \in { "fetched", "stored" }
  /\ ga.g.curOk /\ ga.g.prevOk
  /\ ga.g.curN = 0 /\ ga.g.prevN = 0

C14_FieldsByMetricName ==
  (ga.pc \in { "fetched", "stored" } /\ ~ga.threw /\ ga.g.curN >= 1) =>
    LET cur  == CurWorld(ga.g)
        data == ga.data[1]
    IN /\ data.visitors = cur["totalUsers"]
       /\ data.bounceRate
            = ToString(Max(0, Min(100, 100 - cur["engagementRate"]))) \o ".00%"
       /\ data.avgEngagementTime
            = Some(EngagementTime(cur["userEngagementDuration"]))
       /\ data.activeUsers = Some(cur["activeUsers"])
       /\ data.newUsers
            = Some(IF ga.g.curSecOk THEN ga.g.curN * cur["newUsers"] ELSE 0)

(***************************************************************************)
(* Access control: every route, one request at a time                      *)
(***************************************************************************)
\* no handler is suspended: the next request is taken
Quiet == Ready /\ \A i \in Slots : rq[i].kind = "idle"

ReqAuthUrl == Quiet /\ \E s \in Sessions : getAuthUrl(s)

ReqAuthCallback ==
  /\ Quiet
  /\ \E s \in Sessions, a \in Accounts :
       handleAuthCallback(s, Some("code"), GoogleAccepts(a))

ReqCurrentUser ==
  /\ Quiet
  /\ \E s \in Sessions :
       Authenticated(s, "getCurrentUser", Undefined,
                     getCurrentUser(s))

ReqLogout == Quiet /\ \E s \in Sessions : Authenticated(s, "logout", Undefined, logout(s))

ReqHealth == Quiet /\ \E s \in Sessions : health(s)

ReqUserWebsites ==
  /\ Quiet
  /\ \E s \in Sessions :
       Authenticated(s, "getUserWebsites", Undefined,
                     getUserWebsites(s))

ReqAddWebsite ==
  /\ Quiet
  /\ \E s \in Sessions, valid \in BOOLEAN :
       Authenticated(s, "addWebsite", Undefined,
                     addWebsite(s, valid, "p1"))

ReqDeleteWebsite ==
  /\ Quiet
  /\ \E s \in Sessions, p \in IdParams :
       Authenticated(s, "deleteWebsite", parseInt(p),
                     deleteWebsite(s, p, 1))

ReqGa4Properties ==
  /\ Quiet
  /\ \E s \in Sessions, ok \in BOOLEAN :
       Authenticated(s, "getAvailableGa4Properties", Undefined,
                     getAvailableGa4Properties(s, ok))

ReqLatestMetrics ==
  /\ Quiet
  /\ \E s \in Sessions, p \in IdParams :
       Authenticated(s, "getLatestMetrics", parseInt(p),
                     getLatestMetrics(s, p))

ReqSyncMetrics ==
  /\ Quiet
  /\ \E s \in Sessions, p \in IdParams, g \in ServerBackends :
       Authenticated(s, "syncMetrics", parseInt(p), syncMetrics(s, p, Undefined, g))

ReqInsights ==
  /\ Quiet
  /\ \E s \in Sessions, p \in IdParams :
       Authenticated(s, "getInsights", parseInt(p),
                     getInsights(s, p))

ReqGenerateInsights ==
  /\ Quiet
  /\ \E s \in Sessions, p \in IdParams, ok \in BOOLEAN :
       Authenticated(s, "generateInsights", parseInt(p),
                     generateInsights(s, p, ok, TRUE, 1))

ReqInsightsSummary ==
  /\ Quiet
  /\ \E s \in Sessions, p \in IdParams, insightsOk \in BOOLEAN :
       Authenticated(s, "generateInsightsSummary", parseInt(p),
                     generateInsightsSummary(s, p, insightsOk, TRUE))

ReqGenerateReport ==
  /\ Quiet
  /\ \E s \in Sessions, p \in IdParams, q \in Queries :
       Authenticated(s, "generateReport", parseInt(p), generateReport(s, p, q, 1, FALSE))

ReqReport ==
  /\ Quiet
  /\ \E s \in Sessions, p \in IdParams :
       Authenticated(s, "getReport", parseInt(p),
                     getReport(s, p))

ReqUserReports ==
  /\ Quiet
  /\ \E s \in Sessions :
       Authenticated(s, "getUserReports", Undefined,
                     getUserReports(s))

ReqPlans ==
  /\ Quiet
  /\ \E s \in Sessions, p \in IdParams :
       Authenticated(s, "getImplementationPlans", parseInt(p),
                     getImplementationPlans(s, p))

ReqPlan ==
  /\ Quiet
  /\ \E s \in Sessions, p \in IdParams :
       Authenticated(s, "getImplementationPlan", parseInt(p),
                     getImplementationPlan(s, p))

ReqGeneratePlan ==
  /\ Quiet
  /\ \E s \in Sessions, p \in IdParams, ids \in InsightIdLists, llmOk \in BOOLEAN :
       Authenticated(s, "generateImplementationPlan", parseInt(p),
                     generateImplementationPlan(s, p, ids, llmOk))

ReqDeletePlan ==
  /\ Quiet
  /\ \E s \in Sessions, p \in IdParams :
       Authenticated(s, "deleteImplementationPlan", parseInt(p),
                     deleteImplementationPlan(s, p))

AccessNext ==
  \/ ReqAuthUrl
  \/ ReqAuthCallback
  \/ ReqCurrentUser
  \/ ReqLogout
  \/ ReqHealth
  \/ ReqUserWebsites
  \/ ReqAddWebsite
  \/ ReqDeleteWebsite
  \/ ReqGa4Properties
  \/ ReqLatestMetrics
  \/ ReqSyncMetrics
  \/ ReqInsights
  \/ ReqGenerateInsights
  \/ ReqInsightsSummary
  \/ ReqGenerateReport
  \/ ReqReport
  \/ ReqUserReports
  \/ ReqPlans
  \/ ReqPlan
  \/ ReqGeneratePlan
  \/ ReqDeletePlan
  \/ ResumeDelete
  \/ ResumeReport
  \/ Flush

AccessSpec == Init /\ [][AccessNext]_vars

\* the routes registered without the authenticate middleware
OpenRoutes == { "getAuthUrl", "handleAuthCallback", "health" }

\* the step is a request taken from a client (not a resumed handler)
Arrives == ev = NoEvent /\ ev' # NoEvent /\ \A i \in Slots : rq[i].kind = "idle"

\* the step answers without data, external call or change of a row or frame
NothingDone ==
  /\ ev'.body = {}
  /\ ev'.ext = {}
  /\ db' = db
  /\ serial' = serial
  /\ rq' = rq

\* C4: a request without a session userId to any route other than auth/url,
\* auth/callback, /auth and health is answered 401, and the route's handler
\* is not run: no row is returned or changed.
C4_UnauthenticatedRejected ==
  [][ (Arrives /\ ev'.route \notin OpenRoutes /\ ev'.uid = Undefined)
        => (ev'.status = 401 /\ ~ev'.ran /\ NothingDone /\ session' = session) ]_vars

\* C4 witness: reports exist and a client without session asks for the list
C4_Witness ==
  /\ ev.route = "getUserReports"
  /\ ev.uid = Undefined
  /\ ev.status = 401
  /\ DOMAIN db.reports # {}

\* the routes that take a :websiteId
WebsiteRoutes ==
  { "getLatestMetrics", "syncMetrics", "deleteWebsite", "getInsights",
    "generateInsights", "generateInsightsSummary", "generateReport",
    "getImplementationPlans", "generateImplementationPlan" }

\* the routes that validate the request body before they look up the website
BodyFirstRoutes ==
  { "generateInsightsSummary", "generateReport", "generateImplementationPlan" }

\* the request of the step names an existing website of another user
ForeignWebsite ==
  /\ Arrives
  /\ ev'.route \in WebsiteRoutes
  /\ ev'.uid # Undefined
  /\ ev'.param # Undefined
  /\ ev'.param[1] \in DOMAIN db.websites
  /\ Some(db.websites[ev'.param[1]].userId) # ev'.uid

C6_OwnerOnly ==
  [][ (Arrives /\ ev'.uid # Undefined) =>
        /\ (ev'.route = "getReport" /\ ev'.param # Undefined
              /\ ev'.param[1] \in DOMAIN db.reports)
             => IF Some(db.reports[ev'.param[1]].userId) = ev'.uid
                THEN ev'.status = 200 /\ ev'.body = { << "reports", ev'.param[1] >> }
                ELSE ev'.status = 403 /\ NothingDone
        /\ ev'.route = "getUserReports"
             => ev'.body = { << "reports", r >> :
                               r \in { x \in DOMAIN db.reports :
                                         Some(db.reports[x].userId) = ev'.uid } }
        /\ (ev'.route \in { "getImplementationPlan", "deleteImplementationPlan" }
              /\ ev'.param # Undefined /\ ev'.param[1] \in DOMAIN db.plans)
             => LET n == ev'.param[1]
                    w == db.plans[n].websiteId
                IN IF w \in DOMAIN db.websites /\ Some(db.websites[w].userId) = ev'.uid
                   THEN /\ ev'.status = 200
                        /\ ev'.route = "getImplementationPlan"
                             => ev'.body = { << "plans", n >> } /\ db' = db
                        /\ ev'.route = "deleteImplementationPlan"
                             => db' = [ db EXCEPT !.plans = Remove(@, {n}) ]
                   ELSE ev'.status = 403 /\ NothingDone ]_vars

\* C6 witness: the second account asks for a report of the demo user
C6_Witness ==
  /\ ev.route = "getReport"
  /\ ev.status = 403
  /\ ev.uid = Some(2)
  /\ ev.param # Undefined
  /\ ev.param[1] \in DOMAIN db.reports
  /\ db.reports[ev.param[1]].userId = 1

\* the ids of list that name an insight of website w in the tables d
InsightsOfWebsiteIn(d, list, w) ==
  { list[k] : k \in { j \in 1..Len(list) :
                        /\ list[j] \in DOMAIN d.insights
                        /\ d.insights[list[j]].websiteId = w } }

TrendInputs ==
  UNION { [ 1..n -> { [ visitors |-> v, conversions |-> 1 ] : v \in { 2, 5 } } ] :
            n \in 0..MaxTrendDays }

NumInit ==
  /\ db = seed
  /\ serial = [ t \in Tables |-> Cardinality(DOMAIN seed[t]) + 1 ]
  /\ session = [ s \in Sessions |-> Undefined ]
  /\ rq = [ i \in Slots |-> IdleFrame ]
  /\ ev = NoEvent
  /\ oauth2Client = Undefined
  /\ ga \in { [ pc |-> "numbers", current |-> c, previous |-> p ] :
                c \in (0 - 2)..MaxValue, p \in (0 - 2)..MaxValue }
            \cup { [ pc |-> "trends", dailyTrends |-> t ] : t \in TrendInputs }

NumCalculateChange ==
  /\ ga.pc = "numbers"
  /\ ga' = [ pc |-> "change", current |-> ga.current, previous |-> ga.previous,
             change |-> calculateChange(ga.current, ga.previous) ]
  /\ UNCHANGED << db, serial, session, rq, ev, oauth2Client >>

NumTrendSummary ==
  /\ ga.pc = "trends"
  /\ ga' = [ pc |-> "summary", dailyTrends |-> ga.dailyTrends,
             summary |-> trendSummary(ga.dailyTrends) ]
  /\ UNCHANGED << db, serial, session, rq, ev, oauth2Client >>

NumNext == NumCalculateChange \/ NumTrendSummary

NumSpec == NumInit /\ [][NumNext]_vars

\* C11: calculateChange returns '0%' when previous is 0; otherwise it
\* returns the delta (current - previous) / previous * 100 rounded to the
\* nearest tenth, prefixed with '+' exactly when the delta is greater than 0
\* (a negative delta carries its '-'), and followed by '%'.
C11_CalculateChange ==
  ga.pc = "change" =>
    LET c == ga.current
        p == ga.previous
        N == Abs(c - p) * 1000
        D == Abs(p)
        sign == IF (c - p) * p > 0 THEN "+" ELSE IF (c - p) * p < 0 THEN "-" ELSE ""
    IN IF p = 0 THEN ga.change = "0%"
       ELSE \E t \in 0..(N \div D + 1) :
              /\ 2 * N - D <= 2 * t * D
              /\ 2 * t * D <= 2 * N + D
              /\ ga.change = sign \o ToString(t \div 10) \o "."
                                \o ToString(t % 10) \o "%"

\* C11 witness: a drop from 3 to 1 is reported as -66.7%
C11_Witness ==
  /\ ga.pc = "change"
  /\ ga.current = 1
  /\ ga.previous = 3
  /\ ga.change = "-66.7%"

\* C19: for every non-empty dailyTrends list both halves of the trend
\* summary hold at least one day, so neither average is 0 / 0.
C19_HalvesNonEmpty ==
  (ga.pc = "summary" /\ Len(ga.dailyTrends) > 0) =>
    /\ ga.summary # Undefined
    /\ Len(ga.summary[1].firstHalf) > 0
    /\ Len(ga.summary[1].secondHalf) > 0
    /\ ga.summary[1].avgVisitorsFirstHalf # "NaN"
    /\ ga.summary[1].avgVisitorsSecondHalf # "NaN"

====
